---- MODULE Spec2Model ----
(***************************************************************************)
(* wxorca-agents: the agent graphs, the conversation state that flows      *)
(* through them, the tool-execution loop and the CLI entry point.          *)
(*                                                                         *)
(* Text is modelled as a sequence of whitespace-separated words, so        *)
(* str::contains is containment of a contiguous run of words and           *)
(* to_lowercase is applied word by word.  Option<T> is a sequence of       *)
(* length at most one: None is <<>> and Some(x) is <<x>>.                    *)
(***************************************************************************)
EXTENDS Naturals, Sequences, FiniteSets, TLC

VARIABLES
    input,      \* what the caller supplies: agent/graph, user message, session, pending calls
    phase,      \* position of process_message: "build", "run", "done"
    graph,      \* the compiled graph, Some(graph) once built
    status,     \* runner state: "Idle", "Running", "Finished", "Failed"
    current,    \* the node the runner executes next
    iterations, \* node executions counted by the runner
    st,         \* the shared conversation state of the run
    et,         \* locals of ExecuteToolsNode::execute while it is suspended
    uuid,       \* number of ids handed out by Uuid::new_v4
    error,      \* the error a failed build or run returned
    hist,       \* history: what each node execution and each mark_complete observed
    wx,         \* a WxorcaState driven through its public methods
    clock,      \* Utc::now()
    lock,       \* the RwLock around the shared state: "ok" or "poisoned"
    db,         \* the rows of the conversations table
    io,         \* interactive mode: --session, the lines of stdin left, the line read, stdout
    last        \* history: the last WxorcaState method applied, when, and the state before it

vars == <<input, phase, graph, status, current, iterations, st, et, uuid, error,
          hist, wx, clock, last, lock, db, io>>

runVars == <<input, phase, graph, status, current, iterations, st, et, uuid, error, hist>>

apiVars == <<wx, clock, last, db, io>>

----------------------------------------------------------------------------
(* Bounds of the model *)

\* pending tool calls the caller may hand over in the initial state
MaxInitCalls == 2

\* values Utc::now() ranges over
MaxClock == 2

\* method calls applied to one WxorcaState
MaxOps == 3

\* the largest limit a tool is called with
MaxLimit == 9

----------------------------------------------------------------------------
(* Option and text *)

None == <<>>

Some(x) == <<x>>

unwrap_or(opt, default) == IF opt = None THEN default ELSE opt[1]

LowerWord(w) ==
    CASE w = "How" -> "how"
      [] w = "I" -> "i"
      [] w = "Show" -> "show"
      [] w = "A" -> "a"
      [] w = "My" -> "my"
      [] w = "Is" -> "is"
      [] w = "I'm" -> "i'm"
      [] w = "What's" -> "what's"
      [] w = "Salesforce" -> "salesforce"
      [] w = "Python" -> "python"
      [] OTHER -> w

to_lowercase(s) == [i \in 1..Len(s) |-> LowerWord(s[i])]

contains(s, pat) ==
    \E i \in 0..Len(s) :
        /\ i + Len(pat) <= Len(s)
        /\ \A j \in 1..Len(pat) : s[i + j] = pat[j]

is_empty(s) == Len(s) = 0

RECURSIVE SelectRole(_, _)
SelectRole(msgs, role) ==
    IF msgs = <<>> THEN <<>>
    ELSE LET rest == SelectRole(Tail(msgs), role)
         IN  IF Head(msgs).role = role THEN <<Head(msgs)>> \o rest ELSE rest

----------------------------------------------------------------------------
(* JSON values held in the context map and in tool-call arguments *)

JString(s) == [t |-> "string", v |-> s]

JNumber(n) == [t |-> "number", v |-> n]

JBool(b) == [t |-> "bool", v |-> b]

JObject(o) == [t |-> "object", v |-> o]

JArray(a) == [t |-> "array", v |-> a]

EmptyMap == [k \in {} |-> JBool(FALSE)]

insert(map, key, value) == [k \in DOMAIN map \cup {key} |-> IF k = key THEN value ELSE map[k]]

----------------------------------------------------------------------------
(* Agent types *)

AdminSetup == "AdminSetup"

UsageAssistant == "UsageAssistant"

Troubleshoot == "Troubleshoot"

BestPractices == "BestPractices"

DocsHelper == "DocsHelper"

AgentType_all == <<AdminSetup, UsageAssistant, Troubleshoot, BestPractices, DocsHelper>>

AgentTypes == {AgentType_all[i] : i \in 1..Len(AgentType_all)}

system_prompt(agent_type) == <<"prompt", agent_type>>

----------------------------------------------------------------------------
(* Messages and the conversation state (state.rs) *)

Message_user(id, content, now) ==
    [id |-> id, role |-> "user", content |-> content, timestamp |-> now,
     tool_call_id |-> None, tool_name |-> None]

Message_assistant(id, content, now) ==
    [id |-> id, role |-> "assistant", content |-> content, timestamp |-> now,
     tool_call_id |-> None, tool_name |-> None]

Message_system(id, content, now) ==
    [id |-> id, role |-> "system", content |-> content, timestamp |-> now,
     tool_call_id |-> None, tool_name |-> None]

Message_tool_result(id, tool_call_id, content, now) ==
    [id |-> id, role |-> "tool", content |-> content, timestamp |-> now,
     tool_call_id |-> Some(tool_call_id), tool_name |-> None]

WxorcaState_new(agent_type, fresh_session, now) ==
    [session_id |-> fresh_session, agent_type |-> agent_type, messages |-> <<>>,
     context |-> EmptyMap, iteration |-> 0, is_complete |-> FALSE,
     pending_tool_calls |-> <<>>, created_at |-> now, updated_at |-> now]

with_session_id(agent_type, session_id, fresh_session, now) ==
    [WxorcaState_new(agent_type, fresh_session, now) EXCEPT !.session_id = session_id]

\* mutant: the new message replaces the conversation instead of extending it
add_user_message_replaces(s, id, content, now) ==
    [s EXCEPT !.messages = <<Message_user(id, content, now)>>, !.updated_at = now]

add_user_message(s, id, content, now) ==
    [s EXCEPT !.messages = Append(@, Message_user(id, content, now)), !.updated_at = now]

add_assistant_message(s, id, content, now) ==
    [s EXCEPT !.messages = Append(@, Message_assistant(id, content, now)), !.updated_at = now]

\* mutant: the message tagged with its own id instead of the call's
add_tool_result_tags_itself(s, id, tool_call_id, result, now) ==
    [s EXCEPT !.messages = Append(@, Message_tool_result(id, id, result, now)),
              !.updated_at = now]

add_tool_result(s, id, tool_call_id, result, now) ==
    [s EXCEPT !.messages = Append(@, Message_tool_result(id, tool_call_id, result, now)),
              !.updated_at = now]

\* mutant: the scan runs forwards and stops at the oldest match
RECURSIVE find_role_forwards(_, _)
find_role_forwards(msgs, role) ==
    IF msgs = <<>> THEN None
    ELSE IF Head(msgs).role = role THEN Some(Head(msgs))
    ELSE find_role_forwards(Tail(msgs), role)

RECURSIVE rfind_role(_, _)
rfind_role(msgs, role) ==
    IF msgs = <<>> THEN None
    ELSE IF msgs[Len(msgs)].role = role THEN Some(msgs[Len(msgs)])
    ELSE rfind_role(SubSeq(msgs, 1, Len(msgs) - 1), role)

last_user_message(s) == rfind_role(s.messages, "user")

last_assistant_message(s) == rfind_role(s.messages, "assistant")

has_pending_tool_calls(s) == ~ (s.pending_tool_calls = <<>>)

\* mutant: the timestamp refreshed, the list left as it is
clear_tool_calls_keeps_list(s, now) == [s EXCEPT !.updated_at = now]

clear_tool_calls(s, now) == [s EXCEPT !.pending_tool_calls = <<>>, !.updated_at = now]

PendingToolCall(id, name, arguments) == [id |-> id, name |-> name, arguments |-> arguments]

add_tool_call(s, id, name, arguments, now) ==
    [s EXCEPT !.pending_tool_calls = Append(@, PendingToolCall(id, name, arguments)),
              !.updated_at = now]

\* mutant: the flag toggled instead of set
mark_complete_toggles(s, now) == [s EXCEPT !.is_complete = ~ @, !.updated_at = now]

mark_complete(s, now) == [s EXCEPT !.is_complete = TRUE, !.updated_at = now]

\* mutant: the counter bumped without refreshing updated_at
increment_iteration_keeps_stamp(s, now) == [s EXCEPT !.iteration = @ + 1]

increment_iteration(s, now) == [s EXCEPT !.iteration = @ + 1, !.updated_at = now]

set_metadata(s, key, value, now) ==
    [s EXCEPT !.context = insert(@, key, value), !.updated_at = now]

get_metadata(s, key) == IF key \in DOMAIN s.context THEN Some(s.context[key]) ELSE None

\* typed read of a context entry: a missing key and a value of another type are both None
get_context(s, key, type) ==
    IF key \in DOMAIN s.context /\ s.context[key].t = type
    THEN Some(s.context[key].v) ELSE None

----------------------------------------------------------------------------
(* Query analysis (agents/mod.rs, troubleshoot.rs, best_practices.rs, docs_helper.rs) *)

detect_intent(query) ==
    LET query_lower == to_lowercase(query) IN
    IF \/ contains(query_lower, <<"how", "do", "i">>)
       \/ contains(query_lower, <<"how", "to">>)
       \/ contains(query_lower, <<"show", "me">>)
    THEN <<"howto">>
    ELSE IF \/ contains(query_lower, <<"error">>)
            \/ contains(query_lower, <<"failed">>)
            \/ contains(query_lower, <<"not", "working">>)
            \/ contains(query_lower, <<"problem">>)
    THEN <<"troubleshoot">>
    ELSE IF \/ contains(query_lower, <<"documentation">>)
            \/ contains(query_lower, <<"docs">>)
            \/ contains(query_lower, <<"where", "can", "i", "find">>)
    THEN <<"search">>
    ELSE IF \/ contains(query_lower, <<"example">>)
            \/ contains(query_lower, <<"sample">>)
            \/ contains(query_lower, <<"show", "me", "code">>)
    THEN <<"example">>
    ELSE IF \/ contains(query_lower, <<"validate">>)
            \/ contains(query_lower, <<"check">>)
            \/ contains(query_lower, <<"is", "this", "correct">>)
    THEN <<"validate">>
    ELSE IF \/ contains(query_lower, <<"best", "practice">>)
            \/ contains(query_lower, <<"recommend">>)
            \/ contains(query_lower, <<"should", "i">>)
    THEN <<"advice">>
    ELSE <<"general">>

\* the category of the Diagnosis; its severity and its lists follow the category
diagnose_issue(query) ==
    LET query_lower == to_lowercase(query) IN
    IF \/ contains(query_lower, <<"authentication">>)
       \/ contains(query_lower, <<"login">>)
       \/ contains(query_lower, <<"access", "denied">>)
       \/ contains(query_lower, <<"401">>)
    THEN [category |-> <<"authentication">>, severity |-> <<"high">>]
    ELSE IF \/ contains(query_lower, <<"timeout">>)
            \/ contains(query_lower, <<"slow">>)
            \/ contains(query_lower, <<"performance">>)
    THEN [category |-> <<"performance">>, severity |-> <<"medium">>]
    ELSE IF \/ contains(query_lower, <<"integration">>)
            \/ contains(query_lower, <<"connection">>)
            \/ contains(query_lower, <<"api">>)
    THEN [category |-> <<"integration">>, severity |-> <<"medium">>]
    ELSE IF \/ contains(query_lower, <<"skill">>)
            \/ contains(query_lower, <<"workflow">>)
            \/ contains(query_lower, <<"failed">>)
    THEN [category |-> <<"execution">>, severity |-> <<"medium">>]
    ELSE [category |-> <<"general">>, severity |-> <<"low">>]

identify_best_practices_topic(query) ==
    LET query_lower == to_lowercase(query) IN
    IF contains(query_lower, <<"workflow">>) \/ contains(query_lower, <<"automation">>)
    THEN <<"workflow_design">>
    ELSE IF contains(query_lower, <<"performance">>) \/ contains(query_lower, <<"speed">>)
    THEN <<"performance">>
    ELSE IF contains(query_lower, <<"security">>) \/ contains(query_lower, <<"permission">>)
    THEN <<"security">>
    ELSE IF contains(query_lower, <<"skill">>) \/ contains(query_lower, <<"catalog">>)
    THEN <<"skill_design">>
    ELSE IF contains(query_lower, <<"team">>) \/ contains(query_lower, <<"collaborate">>)
    THEN <<"collaboration">>
    ELSE IF contains(query_lower, <<"error">>) \/ contains(query_lower, <<"handle">>)
    THEN <<"error_handling">>
    ELSE IF contains(query_lower, <<"test">>) \/ contains(query_lower, <<"deploy">>)
    THEN <<"deployment">>
    ELSE <<"general">>

\* the primary category of the DocsCategory
categorize_docs_request(query) ==
    LET query_lower == to_lowercase(query) IN
    IF contains(query_lower, <<"api">>) \/ contains(query_lower, <<"endpoint">>)
    THEN [primary |-> <<"api">>]
    ELSE IF contains(query_lower, <<"admin">>) \/ contains(query_lower, <<"configure">>)
    THEN [primary |-> <<"admin">>]
    ELSE IF contains(query_lower, <<"start">>) \/ contains(query_lower, <<"begin">>)
    THEN [primary |-> <<"getting_started">>]
    ELSE IF contains(query_lower, <<"skill">>)
    THEN [primary |-> <<"user">>]
    ELSE IF contains(query_lower, <<"workflow">>)
    THEN [primary |-> <<"user">>]
    ELSE IF contains(query_lower, <<"integration">>)
    THEN [primary |-> <<"admin">>]
    ELSE IF contains(query_lower, <<"error">>) \/ contains(query_lower, <<"troubleshoot">>)
    THEN [primary |-> <<"troubleshooting">>]
    ELSE IF contains(query_lower, <<"release">>) \/ contains(query_lower, <<"new">>)
    THEN [primary |-> <<"release_notes">>]
    ELSE [primary |-> <<"user">>]

\* the templated reply of a response node: which template, and whether the
\* documentation footer is added because tool results are in the conversation
generate_response(agent_type, query, tool_results) ==
    <<"reply", agent_type>> \o
    (IF agent_type \in {AdminSetup, UsageAssistant, DocsHelper} /\ ~ is_empty(tool_results)
     THEN <<"related_documentation">> ELSE <<>>)

----------------------------------------------------------------------------
(* Tools (tools/*.rs) and the registry *)

Ok(x) == [ok |-> TRUE, v |-> x]

Err(e) == [ok |-> FALSE, v |-> e]

\* serde: a required field of type String must be present and hold a string
has_string(arguments, field) ==
    field \in DOMAIN arguments /\ arguments[field].t = "string"

\* serde: an optional String field is absent or holds a string
optional_string(arguments, field) ==
    field \notin DOMAIN arguments \/ arguments[field].t = "string"

\* serde: a usize field with a default is absent or holds a non-negative integer
optional_usize(arguments, field) ==
    field \notin DOMAIN arguments
    \/ (arguments[field].t = "number" /\ arguments[field].v \in Nat)

get_or(arguments, field, default) ==
    IF field \in DOMAIN arguments THEN arguments[field].v ELSE default

get_option(arguments, field) ==
    IF field \in DOMAIN arguments THEN Some(arguments[field].v) ELSE None

truncate(v, len) == IF Len(v) > len THEN SubSeq(v, 1, len) ELSE v

\* The mock documentation catalog.  relevance is in hundredths; words holds the
\* lower-cased query words of this model that occur in the lower-cased title or
\* content, which is what str::contains is asked about them.
MockDocs ==
    << [title |-> "Getting Started with WatsonX Orchestrate",
        category |-> <<"user">>, relevance |-> 95,
        words |-> {"a", "an", "for", "getting", "i", "is", "with"}],
       [title |-> "Admin Setup Guide",
        category |-> <<"admin">>, relevance |-> 92,
        words |-> {"a", "an", "config", "guide", "i", "integration", "is", "me",
                   "security", "setup", "the", "this"}],
       [title |-> "Creating Custom Skills",
        category |-> <<"user">>, relevance |-> 88,
        words |-> {"a", "an", "create", "how", "i", "skill", "workflow"}],
       [title |-> "API Reference",
        category |-> <<"api">>, relevance |-> 85,
        words |-> {"a", "an", "api", "authentication", "execution", "for", "i", "me",
                   "skill", "the", "workflow"}],
       [title |-> "Troubleshooting Common Issues",
        category |-> <<"troubleshooting">>, relevance |-> 82,
        words |-> {"a", "an", "authentication", "error", "execution", "for", "i",
                   "integration", "is", "skill", "the"}],
       [title |-> "Integration with Salesforce",
        category |-> <<"admin">>, relevance |-> 78,
        words |-> {"a", "an", "for", "guide", "i", "integration", "salesforce", "with"}],
       [title |-> "Security Best Practices",
        category |-> <<"admin">>, relevance |-> 75,
        words |-> {"a", "an", "authentication", "best", "deployment", "for", "i", "me",
                   "practice", "practices", "security", "the"}],
       [title |-> "Workflow Automation Patterns",
        category |-> <<"user">>, relevance |-> 72,
        words |-> {"a", "an", "best", "for", "i", "practice", "practices", "workflow"}] >>

\* The mock example catalog; words as in MockDocs, over title, description and tags.
MockExamples ==
    << [title |-> "Basic Skill Definition", language |-> "json",
        words |-> {"a", "i", "skill"}],
       [title |-> "Python Skill Implementation", language |-> "python",
        words |-> {"a", "for", "i", "me", "skill"}],
       [title |-> "Sequential Workflow", language |-> "json",
        words |-> {"a", "i", "skill", "workflow"}],
       [title |-> "API Authentication", language |-> "python",
        words |-> {"a", "api", "authentication", "i", "the", "with"}],
       [title |-> "JavaScript API Client", language |-> "javascript",
        words |-> {"a", "api", "i", "the"}],
       [title |-> "Salesforce Integration Config", language |-> "json",
        words |-> {"a", "config", "for", "i", "integration", "salesforce"}],
       [title |-> "Error Handling Pattern", language |-> "json",
        words |-> {"a", "an", "best", "error", "for", "handling", "i", "practice",
                   "practices", "workflow"}] >>

\* stable sort, greatest relevance first
RECURSIVE sort_by_relevance(_)
sort_by_relevance(v) ==
    IF v = <<>> THEN <<>>
    ELSE LET rest == sort_by_relevance(Tail(v))
             k == Cardinality({j \in 1..Len(rest) : rest[j].relevance > Head(v).relevance})
         IN  SubSeq(rest, 1, k) \o <<Head(v)>> \o SubSeq(rest, k + 1, Len(rest))

\* title or content contains the whole query, or one of its words.  The empty string
\* is contained in every text; a query that occurs as a whole has its first word
\* occurring, so for a non-empty query the test on the words decides.
text_matches(words, query_lower) ==
    \/ is_empty(query_lower)
    \/ \E i \in 1..Len(query_lower) : query_lower[i] \in words

\* mutant: the result is not cut down to limit
get_mock_docs_untruncated(query, limit, category) ==
    LET query_lower == to_lowercase(query)
        keep(doc) == /\ category # None => doc.category = category[1]
                     /\ text_matches(doc.words, query_lower)
    IN  sort_by_relevance(SelectSeq(MockDocs, keep))

get_mock_docs(query, limit, category) ==
    LET query_lower == to_lowercase(query)
        keep(doc) == /\ category # None => doc.category = category[1]
                     /\ text_matches(doc.words, query_lower)
        filtered == sort_by_relevance(SelectSeq(MockDocs, keep))
    IN  truncate(filtered, limit)

get_mock_examples(topic, language, limit) ==
    LET topic_lower == to_lowercase(topic)
        keep(example) ==
            /\ language # None => to_lowercase(<<example.language>>) = to_lowercase(language[1])
            /\ text_matches(example.words, topic_lower)
    IN  truncate(SelectSeq(MockExamples, keep), limit)

\* serde_json::to_string_pretty of a result list: the kind of list and, in order, the
\* titles of its items
to_string_pretty(kind, results) == <<kind>> \o [i \in 1..Len(results) |-> results[i].title]

\* serde_json::from_str of such a text, given the catalog the items come from
from_str(text, catalog) ==
    [i \in 1..(Len(text) - 1) |->
        catalog[CHOOSE k \in 1..Len(catalog) : catalog[k].title = text[i + 1]]]

\* the database is not reachable: the mock catalog answers
SearchDocsTool_execute(arguments) ==
    IF ~ (/\ has_string(arguments, "query")
          /\ optional_usize(arguments, "limit")
          /\ optional_string(arguments, "category"))
    THEN Err(<<"ToolError", "Invalid arguments">>)
    ELSE Ok(to_string_pretty("docs_json",
                             get_mock_docs(arguments["query"].v,
                                           get_or(arguments, "limit", 5),
                                           get_option(arguments, "category"))))

\* mutant: topic treated as an optional field
FetchExamplesTool_execute_topic_optional(arguments) == Ok(<<"examples_json">>)

FetchExamplesTool_execute(arguments) ==
    IF ~ (/\ has_string(arguments, "topic")
          /\ optional_string(arguments, "language")
          /\ optional_usize(arguments, "limit"))
    THEN Err(<<"ToolError", "Invalid arguments">>)
    ELSE Ok(to_string_pretty("examples_json",
                             get_mock_examples(arguments["topic"].v,
                                               get_option(arguments, "language"),
                                               get_or(arguments, "limit", 3))))

\* serde_json::Value::get: the member of an object, None for a missing key and
\* for a value that is no object
get(value, key) ==
    IF value.t = "object" /\ key \in DOMAIN value.v THEN Some(value.v[key]) ELSE None

\* and_then(|v| v.as_str()), and_then(|v| v.as_array()), and_then(|v| v.as_i64())
and_then_as(option, type) ==
    IF option # None /\ option[1].t = type THEN Some(option[1].v) ELSE None

\* A skill name is held as the sequence of its characters: its checks are on single
\* characters and on its length in bytes. Every other text is held as its words.
\* The bytes of a character in UTF-8, for the characters the model uses.
len_utf8(ch) == IF ch = "é" THEN 2 ELSE 1

RECURSIVE str_len(_)
\* str::len: the length of a string in bytes
str_len(name) == IF name = <<>> THEN 0 ELSE len_utf8(Head(name)) + str_len(Tail(name))

\* name.contains(' ')
contains_space(name) == \E i \in 1..Len(name) : name[i] = " "

ValidationError(field, code) == [field |-> field, code |-> code]

\* what a validator pushes when `condition` holds
push_if(condition, item) == IF condition THEN <<item>> ELSE <<>>

ValidationResult(errors, warnings, suggestions) ==
    [valid |-> errors = <<>>, errors |-> errors, warnings |-> warnings,
     suggestions |-> suggestions]

validate_skill_config(config) ==
    LET name == and_then_as(get(config, "name"), "string")
        errors ==
            push_if(get(config, "name") = None,
                    ValidationError("name", "MISSING_REQUIRED_FIELD"))
            \o push_if(name # None /\ contains_space(unwrap_or(name, <<>>)),
                       ValidationError("name", "INVALID_NAME_FORMAT"))
            \o push_if(name # None /\ str_len(unwrap_or(name, <<>>)) > 64,
                       ValidationError("name", "NAME_TOO_LONG"))
        warnings ==
            push_if(get(config, "description") = None, "description")
            \o push_if(get(config, "input_schema") = None, "input_schema")
    IN  ValidationResult(errors, warnings, <<"example inputs", "tags">>)

RECURSIVE check_steps(_, _)
\* for (i, step) in steps.iter().enumerate(), from step i on
check_steps(steps, i) ==
    IF i > Len(steps) THEN <<>>
    ELSE push_if(get(steps[i], "skill_id") = None /\ get(steps[i], "action") = None,
                 ValidationError("steps[]", "INVALID_STEP"))
         \o check_steps(steps, i + 1)

validate_workflow_config(config) ==
    LET steps == and_then_as(get(config, "steps"), "array")
        errors ==
            push_if(get(config, "name") = None,
                    ValidationError("name", "MISSING_REQUIRED_FIELD"))
            \o push_if(get(config, "steps") = None,
                       ValidationError("steps", "MISSING_REQUIRED_FIELD"))
            \o push_if(steps = Some(<<>>), ValidationError("steps", "EMPTY_STEPS"))
            \o (IF steps = None THEN <<>> ELSE check_steps(steps[1], 1))
        warnings == push_if(get(config, "error_handling") = None, "error_handling")
    IN  ValidationResult(errors, warnings, <<"timeout", "conditional logic">>)

validate_integration_config(config) ==
    LET creds == get(config, "credentials")
        errors ==
            push_if(get(config, "type") = None,
                    ValidationError("type", "MISSING_REQUIRED_FIELD"))
            \o push_if(creds = None,
                       ValidationError("credentials", "MISSING_REQUIRED_FIELD"))
        warnings ==
            push_if(creds # None /\ get(unwrap_or(creds, JBool(FALSE)), "password") # None,
                    "credentials.password")
            \o push_if(get(config, "rate_limit") = None, "rate_limit")
    IN  ValidationResult(errors, warnings, <<"sandbox", "monitoring">>)

validate_auth_config(config) ==
    LET method == and_then_as(get(config, "method"), "string")
        session == get(config, "session")
        timeout == IF session = None THEN None
                   ELSE and_then_as(get(session[1], "timeout"), "number")
        errors ==
            push_if(get(config, "method") = None,
                    ValidationError("method", "MISSING_REQUIRED_FIELD"))
        warnings ==
            push_if(method = Some(<<"basic">>), "method")
            \o push_if(method = Some(<<"oauth">>) /\ get(config, "token_refresh") = None,
                       "token_refresh")
            \o push_if(timeout # None /\ unwrap_or(timeout, 0) > 86400, "session.timeout")
    IN  ValidationResult(errors, warnings, <<"multi-factor", "audit logging", "rotate">>)

\* the variants of ConfigType under rename_all = "snake_case"
ConfigType == {"skill", "workflow", "integration", "authentication"}

\* serde_json::to_string_pretty of a ValidationResult: the text names the flag, then
\* the code of every error, the field of every warning and the suggestions
validation_to_string(result) ==
    <<"validation_json", IF result.valid THEN "true" ELSE "false", "errors:">>
    \o [i \in 1..Len(result.errors) |-> result.errors[i].code]
    \o <<"warnings:">> \o result.warnings
    \o <<"suggestions:">> \o result.suggestions

\* the position of the first occurrence of a word in a text
position(text, word) == CHOOSE i \in 1..Len(text) : text[i] = word /\ \A j \in 1..(i - 1) : text[j] # word

\* serde_json::from_str::<ValidationResult>: the flag and the lists read back
validation_from_str(text) ==
    LET e == position(text, "errors:")
        w == position(text, "warnings:")
        g == position(text, "suggestions:")
    IN  [valid |-> text[2] = "true",
         errors |-> SubSeq(text, e + 1, w - 1),
         warnings |-> SubSeq(text, w + 1, g - 1),
         suggestions |-> SubSeq(text, g + 1, Len(text))]

ValidateConfigTool_execute(arguments) ==
    IF ~ (/\ has_string(arguments, "config_type")
          /\ Len(arguments["config_type"].v) = 1
          /\ arguments["config_type"].v[1] \in ConfigType
          /\ "config" \in DOMAIN arguments)
    THEN Err(<<"ToolError", "Invalid arguments">>)
    ELSE LET config_type == arguments["config_type"].v[1]
             config == arguments["config"]
             result ==
                 CASE config_type = "skill" -> validate_skill_config(config)
                   [] config_type = "workflow" -> validate_workflow_config(config)
                   [] config_type = "integration" -> validate_integration_config(config)
                   [] config_type = "authentication" -> validate_auth_config(config)
         IN  Ok(validation_to_string(result))

\* the registered tool names, in registration order
create_tool_registry == <<"search_wxo_docs", "validate_wxo_config", "fetch_wxo_examples">>

Tool_execute(name, arguments) ==
    CASE name = "search_wxo_docs" -> SearchDocsTool_execute(arguments)
      [] name = "validate_wxo_config" -> ValidateConfigTool_execute(arguments)
      [] name = "fetch_wxo_examples" -> FetchExamplesTool_execute(arguments)

\* ToolRegistry::execute: a text result in every case; an unregistered name and
\* a tool's own error both become an error text
ToolRegistry_execute(registry, call) ==
    IF ~ (\E i \in 1..Len(registry) : registry[i] = call.name)
    THEN [is_error |-> TRUE, text |-> <<"Error", "unknown tool">>]
    ELSE LET r == Tool_execute(call.name, call.arguments)
         IN  IF r.ok THEN [is_error |-> FALSE, text |-> r.v]
             ELSE [is_error |-> TRUE, text |-> <<"Error">> \o r.v]

as_str(result) == result.text

----------------------------------------------------------------------------
(* Routing functions (agents/mod.rs, usage_assistant.rs) *)

END == "__end__"

\* mutant: the test on the pending list inverted
route_by_tools_inverted(state) ==
    IF has_pending_tool_calls(state) THEN END ELSE "execute_tools"

route_by_tools(state) ==
    IF has_pending_tool_calls(state) THEN "execute_tools" ELSE END

route_by_intent(state) ==
    IF unwrap_or(get_context(state, "needs_tools", "bool"), FALSE)
    THEN "search_docs" ELSE "respond"

\* mutant: the intent compared with the name of the node instead of "example"
usage_route_after_analyze_wrong_word(state) ==
    IF get_context(state, "user_intent", "string") = Some(<<"fetch_examples">>)
    THEN "fetch_examples" ELSE "search_docs"

usage_route_after_analyze(state) ==
    IF get_context(state, "user_intent", "string") = Some(<<"example">>)
    THEN "fetch_examples" ELSE "search_docs"

\* a routing function that always sends the node back to itself
route_to_self(state) == "analyze"

Route(router, state) ==
    CASE router = "route_by_tools" -> route_by_tools(state)
      [] router = "route_by_intent" -> route_by_intent(state)
      [] router = "usage_route_after_analyze" -> usage_route_after_analyze(state)
      [] router = "route_to_self" -> route_to_self(state)

----------------------------------------------------------------------------
(* Graph definitions: what each build_graph hands to the GraphBuilder *)

GraphBuilder(nodes, entry, edges, conditional) ==
    [nodes |-> nodes, entry |-> entry, edges |-> edges, conditional |-> conditional]

AdminSetupAgent_build_graph ==
    GraphBuilder(
        << <<"analyze", "AnalyzeQueryNode">>, <<"search_docs", "AdminSearchNode">>,
           <<"respond", "AdminResponseNode">>, <<"execute_tools", "ExecuteToolsNode">> >>,
        Some("analyze"),
        << <<"analyze", "search_docs">>, <<"search_docs", "respond">>,
           <<"execute_tools", "respond">> >>,
        << <<"respond", "route_by_tools">> >>)

\* mutant: an edge that names a node no add_node registered
UsageAssistantAgent_build_graph_typo ==
    GraphBuilder(
        << <<"analyze", "AnalyzeQueryNode">>, <<"search_docs", "UsageSearchNode">>,
           <<"fetch_examples", "ExampleFetchNode">>, <<"respond", "UsageResponseNode">>,
           <<"execute_tools", "ExecuteToolsNode">> >>,
        Some("analyze"),
        << <<"search_docs", "respond">>, <<"fetch_examples", "responds">>,
           <<"execute_tools", "respond">> >>,
        << <<"analyze", "usage_route_after_analyze">>, <<"respond", "route_by_tools">> >>)

UsageAssistantAgent_build_graph ==
    GraphBuilder(
        << <<"analyze", "AnalyzeQueryNode">>, <<"search_docs", "UsageSearchNode">>,
           <<"fetch_examples", "ExampleFetchNode">>, <<"respond", "UsageResponseNode">>,
           <<"execute_tools", "ExecuteToolsNode">> >>,
        Some("analyze"),
        << <<"search_docs", "respond">>, <<"fetch_examples", "respond">>,
           <<"execute_tools", "respond">> >>,
        << <<"analyze", "usage_route_after_analyze">>, <<"respond", "route_by_tools">> >>)

TroubleshootAgent_build_graph ==
    GraphBuilder(
        << <<"analyze", "AnalyzeQueryNode">>, <<"diagnose", "DiagnoseNode">>,
           <<"search_docs", "TroubleshootSearchNode">>,
           <<"respond", "TroubleshootResponseNode">>,
           <<"execute_tools", "ExecuteToolsNode">> >>,
        Some("analyze"),
        << <<"analyze", "diagnose">>, <<"diagnose", "search_docs">>,
           <<"search_docs", "respond">>, <<"execute_tools", "respond">> >>,
        << <<"respond", "route_by_tools">> >>)

\* mutant: execute_tools leads back to the search node, which issues a call again
BestPracticesAgent_build_graph_searches_again ==
    GraphBuilder(
        << <<"analyze", "AnalyzeQueryNode">>, <<"assess", "AssessmentNode">>,
           <<"search_docs", "BestPracticesSearchNode">>,
           <<"respond", "BestPracticesResponseNode">>,
           <<"execute_tools", "ExecuteToolsNode">> >>,
        Some("analyze"),
        << <<"analyze", "assess">>, <<"assess", "search_docs">>,
           <<"search_docs", "respond">>, <<"execute_tools", "search_docs">> >>,
        << <<"respond", "route_by_tools">> >>)

BestPracticesAgent_build_graph ==
    GraphBuilder(
        << <<"analyze", "AnalyzeQueryNode">>, <<"assess", "AssessmentNode">>,
           <<"search_docs", "BestPracticesSearchNode">>,
           <<"respond", "BestPracticesResponseNode">>,
           <<"execute_tools", "ExecuteToolsNode">> >>,
        Some("analyze"),
        << <<"analyze", "assess">>, <<"assess", "search_docs">>,
           <<"search_docs", "respond">>, <<"execute_tools", "respond">> >>,
        << <<"respond", "route_by_tools">> >>)

DocsHelperAgent_build_graph ==
    GraphBuilder(
        << <<"analyze", "AnalyzeQueryNode">>, <<"categorize", "DocsCategoryNode">>,
           <<"search_docs", "DocsSearchNode">>, <<"respond", "DocsResponseNode">>,
           <<"execute_tools", "ExecuteToolsNode">> >>,
        Some("analyze"),
        << <<"analyze", "categorize">>, <<"categorize", "search_docs">>,
           <<"search_docs", "respond">>, <<"execute_tools", "respond">> >>,
        << <<"respond", "route_by_tools">> >>)

\* Builder inputs that are not shipped agents: a node routed back to itself for
\* ever, and the malformed definitions compilation has to refuse.
SelfLoop == "SelfLoop"

BothEdgeKinds == "BothEdgeKinds"

TwoEdges == "TwoEdges"

NoEntry == "NoEntry"

DanglingEdge == "DanglingEdge"

TestGraphs == {SelfLoop, BothEdgeKinds, TwoEdges, NoEntry, DanglingEdge}

TestGraph_builder(name) ==
    CASE name = SelfLoop ->
            GraphBuilder(<< <<"analyze", "AnalyzeQueryNode">> >>, Some("analyze"), <<>>,
                         << <<"analyze", "route_to_self">> >>)
      [] name = BothEdgeKinds ->
            [AdminSetupAgent_build_graph EXCEPT !.edges = Append(@, <<"respond", "analyze">>)]
      [] name = TwoEdges ->
            [AdminSetupAgent_build_graph EXCEPT !.edges = Append(@, <<"analyze", "respond">>)]
      [] name = NoEntry ->
            [AdminSetupAgent_build_graph EXCEPT !.entry = None]
      [] name = DanglingEdge ->
            [AdminSetupAgent_build_graph EXCEPT !.edges[3] = <<"execute_tools", "summarize">>]

----------------------------------------------------------------------------
(* GraphBuilder::compile *)

NodeIds(b) == {b.nodes[i][1] : i \in 1..Len(b.nodes)}

UnconditionalFrom(b, n) == {i \in 1..Len(b.edges) : b.edges[i][1] = n}

ConditionalFrom(b, n) == {i \in 1..Len(b.conditional) : b.conditional[i][1] = n}

Sources(b) ==
    {b.edges[i][1] : i \in 1..Len(b.edges)} \cup
    {b.conditional[i][1] : i \in 1..Len(b.conditional)}

\* mutant: no check of the edges leaving one node; one of them is picked
compile_picks_an_edge(b) ==
    IF b.entry = None THEN Err("BuildError: no entry point")
    ELSE IF b.entry[1] \notin NodeIds(b) THEN Err("BuildError: unknown entry point")
    ELSE IF \E i \in 1..Len(b.edges) :
                b.edges[i][1] \notin NodeIds(b) \/ b.edges[i][2] \notin NodeIds(b) \cup {END}
    THEN Err("BuildError: edge references unknown node")
    ELSE Ok([nodes |-> NodeIds(b),
             executor |-> [n \in NodeIds(b) |->
                           b.nodes[CHOOSE i \in 1..Len(b.nodes) : b.nodes[i][1] = n][2]],
             entry |-> b.entry[1],
             edges |-> [n \in {m \in NodeIds(b) : UnconditionalFrom(b, m) # {}} |->
                           b.edges[CHOOSE i \in UnconditionalFrom(b, n) : TRUE][2]],
             conditional |-> [n \in {m \in NodeIds(b) : ConditionalFrom(b, m) # {}} |->
                           b.conditional[CHOOSE i \in ConditionalFrom(b, n) : TRUE][2]]])

compile(b) ==
    IF b.entry = None THEN Err("BuildError: no entry point")
    ELSE IF b.entry[1] \notin NodeIds(b) THEN Err("BuildError: unknown entry point")
    ELSE IF \E i \in 1..Len(b.edges) :
                b.edges[i][1] \notin NodeIds(b) \/ b.edges[i][2] \notin NodeIds(b) \cup {END}
    THEN Err("BuildError: edge references unknown node")
    ELSE IF \E i \in 1..Len(b.conditional) : b.conditional[i][1] \notin NodeIds(b)
    THEN Err("BuildError: edge references unknown node")
    ELSE IF \E n \in NodeIds(b) : UnconditionalFrom(b, n) # {} /\ ConditionalFrom(b, n) # {}
    THEN Err("BuildError: conditional and unconditional edge from one node")
    ELSE IF \E n \in NodeIds(b) : Cardinality(UnconditionalFrom(b, n)) > 1
    THEN Err("BuildError: several unconditional edges from one node")
    ELSE Ok([nodes |-> NodeIds(b),
             executor |-> [n \in NodeIds(b) |->
                           b.nodes[CHOOSE i \in 1..Len(b.nodes) : b.nodes[i][1] = n][2]],
             entry |-> b.entry[1],
             edges |-> [n \in {m \in NodeIds(b) : UnconditionalFrom(b, m) # {}} |->
                           b.edges[CHOOSE i \in UnconditionalFrom(b, n) : TRUE][2]],
             conditional |-> [n \in {m \in NodeIds(b) : ConditionalFrom(b, m) # {}} |->
                           b.conditional[CHOOSE i \in ConditionalFrom(b, n) : TRUE][2]]])

\* the builder each agent type is dispatched to
agent_builder(agent_type) ==
    CASE agent_type = AdminSetup -> AdminSetupAgent_build_graph
      [] agent_type = UsageAssistant -> UsageAssistantAgent_build_graph
      [] agent_type = Troubleshoot -> TroubleshootAgent_build_graph
      [] agent_type = BestPractices -> BestPracticesAgent_build_graph
      [] agent_type = DocsHelper -> DocsHelperAgent_build_graph

build_agent_graph(agent_type) == compile(agent_builder(agent_type))

\* the graph a run is given: a shipped agent's, or one built by the caller
BuilderFor(which) ==
    IF which \in AgentTypes THEN agent_builder(which) ELSE TestGraph_builder(which)

BuildFor(which) ==
    IF which \in AgentTypes THEN build_agent_graph(which) ELSE compile(BuilderFor(which))

----------------------------------------------------------------------------
(* The CLI: process_message and convert_to_agent_state (bin/cli.rs) *)

\* mutant: the CLI configures a higher ceiling
max_iterations_raised == 10 + 2

max_iterations == 10

Uuid(n) == <<"uuid", n>>

RECURSIVE first_with_role(_, _)
first_with_role(msgs, role) ==
    IF msgs = <<>> THEN None
    ELSE IF Head(msgs).role = role THEN Some(Head(msgs))
    ELSE first_with_role(Tail(msgs), role)

\* the loop over wxorca_state.messages; n is the number of ids handed out so far
RECURSIVE convert_rest(_, _, _, _, _)
convert_rest(msgs, agent_state, skip_first_user, n, now) ==
    IF msgs = <<>> THEN agent_state
    ELSE LET msg == Head(msgs) IN
         CASE msg.role = "user" ->
                IF skip_first_user
                THEN convert_rest(Tail(msgs), agent_state, FALSE, n, now)
                ELSE convert_rest(Tail(msgs),
                                  add_user_message(agent_state, Uuid(n + 1), msg.content, now),
                                  skip_first_user, n + 1, now)
           [] msg.role = "assistant" ->
                convert_rest(Tail(msgs),
                             add_assistant_message(agent_state, Uuid(n + 1), msg.content, now),
                             skip_first_user, n + 1, now)
           [] msg.role = "system" ->
                convert_rest(Tail(msgs),
                             [agent_state EXCEPT !.messages =
                                 Append(@, Message_system(Uuid(n + 1), msg.content, now))],
                             skip_first_user, n + 1, now)
           [] msg.role = "tool" ->
                IF msg.tool_call_id # None
                THEN convert_rest(Tail(msgs),
                                  add_tool_result(agent_state, Uuid(n + 1), msg.tool_call_id[1],
                                                  msg.content, now),
                                  skip_first_user, n + 1, now)
                ELSE convert_rest(Tail(msgs), agent_state, skip_first_user, n, now)

convert_to_agent_state(wxorca_state, n, now) ==
    LET prompt == system_prompt(wxorca_state.agent_type)
        first_user_msg == first_with_role(wxorca_state.messages, "user")
        empty == WxorcaState_new(wxorca_state.agent_type, Uuid(n + 1), now)
        initial ==
            IF first_user_msg # None
            THEN [empty EXCEPT !.messages =
                    << Message_system(Uuid(n + 2), prompt, now),
                       Message_user(Uuid(n + 3), first_user_msg[1].content, now) >>]
            ELSE [empty EXCEPT !.messages = << Message_system(Uuid(n + 2), prompt, now) >>]
        copied == convert_rest(wxorca_state.messages, initial, TRUE, n + 3, now)
    IN  set_metadata(
            set_metadata(copied, "agent_type", JString(<<wxorca_state.agent_type>>), now),
            "session_id", JString(<<wxorca_state.session_id>>), now)

----------------------------------------------------------------------------
(* Inputs *)

Queries ==
    { <<>>,
      <<"How", "do", "I", "reset", "my", "password?">>,
      <<"Show", "me", "an", "example">>,
      <<"A", "sample", "skill", "please">>,
      <<"My", "workflow", "failed", "with", "401">>,
      <<"How", "do", "I", "create", "a", "skill", "?">>,
      <<"I'm", "getting", "an", "error">>,
      <<"Is", "this", "config", "correct?">>,
      <<"What's", "the", "best", "practice", "for", "this?">> }

SessionIds == {<<"session", 1>>}

\* pending calls a caller can put into the state it hands to the runner
CallTemplates ==
    { [name |-> "search_wxo_docs",
       arguments |-> [k \in {"query"} |-> JString(<<"setup">>)]],
      [name |-> "fetch_wxo_examples",
       arguments |-> [k \in {"limit"} |-> JNumber(3)]],
      [name |-> "does_not_exist", arguments |-> EmptyMap] }

RECURSIVE SeqsUpTo(_, _)
SeqsUpTo(S, n) ==
    IF n = 0 THEN {<<>>}
    ELSE LET shorter == SeqsUpTo(S, n - 1)
         IN  shorter \cup {Append(q, x) : q \in {r \in shorter : Len(r) = n - 1}, x \in S}

InitialCalls(templates) ==
    [i \in 1..Len(templates) |->
        PendingToolCall(<<"call", i>>, templates[i].name, templates[i].arguments)]

Inputs ==
    [which : AgentTypes \cup TestGraphs,
     message : {None} \cup {Some(q) : q \in Queries},
     session : {None} \cup {Some(x) : x \in SessionIds},
     calls : {InitialCalls(t) : t \in SeqsUpTo(CallTemplates, MaxInitCalls)}]

AgentTypeOf(in) == IF in.which \in AgentTypes THEN in.which ELSE AdminSetup

\* single-message mode and library callers: nothing is read from stdin
NoIo == [session |-> None, stdin |-> <<>>, line |-> None, stdout |-> <<>>]

EtIdle == [pc |-> "idle", pending_calls |-> <<>>, call |-> None, result |-> None,
           entry |-> None, guard |-> "none"]

\* the ids of the calls of a pending list
CallIds(calls) == {calls[i].id : i \in 1..Len(calls)}

NoHistory == [trace |-> <<>>, completes |-> <<>>, tools |-> <<>>, issued |-> {}]

----------------------------------------------------------------------------
(* The runner: one node execution at a time, up to max_iterations *)

G == graph[1]

Halted == status \in {"Finished", "Failed"}

\* the node that follows `node`, which returned `signal`, in state s
Advance(g, node, signal, s) ==
    IF node \in DOMAIN g.conditional THEN Route(g.conditional[node], s)
    ELSE IF signal = "Finish" THEN END
    ELSE IF node \in DOMAIN g.edges THEN g.edges[node]
    ELSE END

\* the runner is about to execute a node run by `executor`
Executing(executor) ==
    /\ phase = "run"
    /\ status = "Running"
    /\ et.pc = "idle"
    /\ iterations < max_iterations
    /\ G.executor[current] = executor

\* the node returned Ok(signal) leaving state s2 and history h
Return(signal, s2, h) ==
    LET next == Advance(G, current, signal, s2) IN
    /\ st' = s2
    /\ iterations' = iterations + 1
    /\ hist' = [h EXCEPT !.trace = Append(@, [node |-> current, signal |-> signal,
                                              pending |-> Len(s2.pending_tool_calls),
                                              is_complete |-> s2.is_complete]),
                         !.issued = @ \cup CallIds(s2.pending_tool_calls)]
    /\ IF next = END
       THEN status' = "Finished" /\ current' = END /\ phase' = "done" /\ error' = None
       ELSE IF next \notin G.nodes
       THEN /\ status' = "Failed" /\ current' = END /\ phase' = "done"
            /\ error' = Some("node not found")
       ELSE status' = "Running" /\ current' = next /\ phase' = "run" /\ error' = None

\* the node returned Err(e): the run fails, nothing is retried
ReturnErr(e) ==
    /\ st' = st
    /\ iterations' = iterations + 1
    /\ hist' = [hist EXCEPT !.trace = Append(@, [node |-> current, signal |-> "Error",
                                                 pending |-> Len(st.pending_tool_calls),
                                                 is_complete |-> st.is_complete])]
    /\ status' = "Failed"
    /\ current' = END
    /\ phase' = "done"
    /\ error' = Some(e)

\* another holder of the shared state panicked while it held the write guard
Poison ==
    /\ phase = "run"
    /\ status = "Running"
    /\ lock = "ok"
    /\ lock' = "poisoned"
    /\ UNCHANGED <<input, phase, graph, status, current, iterations, st, et, uuid, error,
                   hist>>
    /\ UNCHANGED apiVars

RunExhausted ==
    /\ phase = "run"
    /\ status = "Running"
    /\ et.pc = "idle"
    /\ iterations >= max_iterations
    /\ status' = "Failed"
    /\ error' = Some("maximum iterations reached")
    /\ phase' = "done"
    /\ UNCHANGED <<input, graph, current, iterations, st, et, uuid, hist>>
    /\ UNCHANGED apiVars
    /\ UNCHANGED lock

\* process_message up to the start of the run.  input.calls = <<>> is the CLI; a
\* non-empty list is a caller of the library running the same graph on a state that
\* already holds pending calls.
ProcessMessage ==
    /\ phase = "build"
    /\ LET built == BuildFor(input.which) IN
       IF ~ built.ok
       THEN /\ phase' = "done"
            /\ error' = Some(built.v)
            /\ UNCHANGED <<graph, status, current, st, uuid, hist>>
       ELSE LET agent_type == AgentTypeOf(input)
                created == IF input.session # None
                           THEN with_session_id(agent_type, input.session[1], Uuid(1), clock)
                           ELSE WxorcaState_new(agent_type, Uuid(1), clock)
                state == IF input.message # None
                         THEN add_user_message(created, Uuid(2), input.message[1], clock)
                         ELSE created
                agent_state == convert_to_agent_state(state, 2, clock)
            IN  /\ graph' = Some(built.v)
                /\ st' = [agent_state EXCEPT !.pending_tool_calls = input.calls]
                /\ uuid' = 5 + Len(state.messages)
                /\ status' = "Running"
                /\ current' = built.v.entry
                /\ phase' = "run"
                /\ error' = None
                /\ hist' = [hist EXCEPT !.issued = CallIds(input.calls)]
    /\ UNCHANGED <<input, iterations, et>>
    /\ UNCHANGED apiVars
    /\ UNCHANGED lock

----------------------------------------------------------------------------
(* Nodes *)

set_context(s, key, value, now) == set_metadata(s, key, value, now)

push_tool_call(s, call) == [s EXCEPT !.pending_tool_calls = Append(@, call)]

\* mutant: a non-empty default for the missing key
original_query_defaults_to_text(s) ==
    unwrap_or(get_context(s, "original_query", "string"), <<"help">>)

original_query(s) == unwrap_or(get_context(s, "original_query", "string"), <<>>)

RECURSIVE contents(_)
contents(msgs) == IF msgs = <<>> THEN <<>> ELSE <<Head(msgs).content>> \o contents(Tail(msgs))

AnalyzeQueryNode_execute ==
    /\ Executing("AnalyzeQueryNode")
    /\ LET last_msg == last_user_message(st)
           content == last_msg[1].content
           intent == detect_intent(content)
           needs_tools == intent \in {<<"search">>, <<"validate">>, <<"example">>}
           s2 == IF last_msg # None
                 THEN set_context(
                          set_context(
                              set_context(st, "user_intent", JString(intent), clock),
                              "original_query", JString(content), clock),
                          "needs_tools", JBool(needs_tools), clock)
                 ELSE st
       IN  IF lock = "poisoned"
           THEN ReturnErr("Failed to acquire state lock")
           ELSE Return("Continue", s2, hist)
    /\ UNCHANGED <<input, graph, et, uuid>>
    /\ UNCHANGED apiVars
    /\ UNCHANGED lock

\* a node that derives a context entry from the query: diagnose, assess, categorize
ClassifyNode_execute(executor, key, value) ==
    /\ Executing(executor)
    /\ \/ lock = "poisoned" /\ ReturnErr("Failed to read state") /\ UNCHANGED lock
       \/ lock = "ok" /\ ReturnErr("Failed to write state") /\ lock' = "poisoned"
       \/ /\ lock = "ok"
          /\ Return("Continue", set_context(st, key, value, clock), hist)
          /\ UNCHANGED lock
    /\ UNCHANGED <<input, graph, et, uuid>>
    /\ UNCHANGED apiVars

DiagnoseNode_execute ==
    ClassifyNode_execute("DiagnoseNode", "diagnosis",
                         JObject(diagnose_issue(original_query(st))))

AssessmentNode_execute ==
    ClassifyNode_execute("AssessmentNode", "bp_topic",
                         JString(identify_best_practices_topic(original_query(st))))

DocsCategoryNode_execute ==
    ClassifyNode_execute("DocsCategoryNode", "docs_category",
                         JObject(categorize_docs_request(original_query(st))))

\* mutant: the early return for an empty query left out
SearchNode_execute_unguarded(executor, name, arguments) ==
    /\ Executing(executor)
    /\ \/ /\ lock = "poisoned"
          /\ ReturnErr("Failed to read state")
          /\ UNCHANGED <<uuid, lock>>
       \/ /\ lock = "ok"
          /\ ReturnErr("Failed to write state")
          /\ lock' = "poisoned"
          /\ uuid' = uuid
       \/ /\ lock = "ok"
          /\ Return("Continue",
                    push_tool_call(st, PendingToolCall(Uuid(uuid + 1), name, arguments)),
                    hist)
          /\ uuid' = uuid + 1
          /\ UNCHANGED lock
    /\ UNCHANGED <<input, graph, et>>
    /\ UNCHANGED apiVars

\* a node that queues one tool call for a non-empty query and none otherwise
SearchNode_execute(executor, name, arguments) ==
    /\ Executing(executor)
    /\ \/ /\ lock = "poisoned"
          /\ ReturnErr("Failed to read state")
          /\ UNCHANGED <<uuid, lock>>
       \/ /\ lock = "ok"
          /\ ~ is_empty(original_query(st))
          /\ ReturnErr("Failed to write state")
          /\ lock' = "poisoned"
          /\ uuid' = uuid
       \/ /\ lock = "ok"
          /\ IF is_empty(original_query(st))
             THEN Return("Continue", st, hist) /\ uuid' = uuid
             ELSE /\ Return("Continue",
                            push_tool_call(st, PendingToolCall(Uuid(uuid + 1), name,
                                                               arguments)),
                            hist)
                  /\ uuid' = uuid + 1
          /\ UNCHANGED lock
    /\ UNCHANGED <<input, graph, et>>
    /\ UNCHANGED apiVars

Args3(k1, v1, k2, v2, k3, v3) == (k1 :> v1) @@ (k2 :> v2) @@ (k3 :> v3)

Args2(k1, v1, k2, v2) == (k1 :> v1) @@ (k2 :> v2)

replace_underscores(s) ==
    CASE s = <<"workflow_design">> -> <<"workflow", "design">>
      [] s = <<"skill_design">> -> <<"skill", "design">>
      [] s = <<"error_handling">> -> <<"error", "handling">>
      [] OTHER -> s

AdminSearchNode_execute ==
    SearchNode_execute("AdminSearchNode", "search_wxo_docs",
        Args3("query", JString(original_query(st)),
              "category", JString(<<"admin">>), "limit", JNumber(5)))

UsageSearchNode_execute ==
    SearchNode_execute("UsageSearchNode", "search_wxo_docs",
        Args3("query", JString(original_query(st)),
              "category", JString(<<"user">>), "limit", JNumber(5)))

ExampleFetchNode_execute ==
    SearchNode_execute("ExampleFetchNode", "fetch_wxo_examples",
        Args2("topic", JString(original_query(st)), "limit", JNumber(3)))

TroubleshootSearchNode_execute ==
    LET diagnosis == get_context(st, "diagnosis", "object")
        diagnosis_category == IF diagnosis # None THEN diagnosis[1].category
                              ELSE <<"general">>
    IN  SearchNode_execute("TroubleshootSearchNode", "search_wxo_docs",
            Args3("query", JString(diagnosis_category \o original_query(st)),
                  "category", JString(<<"troubleshooting">>), "limit", JNumber(5)))

\* mutant: the examples tool called with the argument name of the docs tool
BestPracticesSearchNode_execute_query_key ==
    LET topic == unwrap_or(get_context(st, "bp_topic", "string"), <<"general">>)
    IN  SearchNode_execute("BestPracticesSearchNode", "fetch_wxo_examples",
            Args2("query", JString(replace_underscores(topic) \o <<"best", "practices">>),
                  "limit", JNumber(3)))

BestPracticesSearchNode_execute ==
    LET topic == unwrap_or(get_context(st, "bp_topic", "string"), <<"general">>)
    IN  SearchNode_execute("BestPracticesSearchNode", "fetch_wxo_examples",
            Args2("topic", JString(replace_underscores(topic) \o <<"best", "practices">>),
                  "limit", JNumber(3)))

DocsSearchNode_execute ==
    LET category == unwrap_or(get_context(st, "docs_category", "object"),
                              [primary |-> <<"user">>])
    IN  SearchNode_execute("DocsSearchNode", "search_wxo_docs",
            Args3("query", JString(original_query(st)),
                  "category", JString(category.primary), "limit", JNumber(5)))

\* a response node: append the reply, mark the conversation complete, Finish
ResponseNode_execute(executor, agent_type) ==
    /\ Executing(executor)
    /\ LET tool_results == contents(SelectRole(st.messages, "tool"))
           response == generate_response(agent_type, original_query(st), tool_results)
           s2 == mark_complete(add_assistant_message(st, Uuid(uuid + 1), response, clock),
                               clock)
           h == [hist EXCEPT !.completes =
                    Append(@, [node |-> current, pending |-> Len(st.pending_tool_calls),
                               was_complete |-> st.is_complete])]
       IN  IF lock = "poisoned"
           THEN ReturnErr("Failed to write state") /\ uuid' = uuid
           ELSE Return("Finish", s2, h) /\ uuid' = uuid + 1
    /\ UNCHANGED <<input, graph, et>>
    /\ UNCHANGED apiVars
    /\ UNCHANGED lock

AdminResponseNode_execute == ResponseNode_execute("AdminResponseNode", AdminSetup)

UsageResponseNode_execute == ResponseNode_execute("UsageResponseNode", UsageAssistant)

TroubleshootResponseNode_execute ==
    ResponseNode_execute("TroubleshootResponseNode", Troubleshoot)

BestPracticesResponseNode_execute ==
    ResponseNode_execute("BestPracticesResponseNode", BestPractices)

DocsResponseNode_execute == ResponseNode_execute("DocsResponseNode", DocsHelper)

\* ExecuteToolsNode::execute, one step per lock scope and per awaited tool.  et.guard
\* is the lock guard still alive when the step ends: the read guard lives in the block
\* of the snapshot and the write guard of a result in the body of the loop, so each is
\* dropped where its step ends.
ExecuteTools_snapshot ==
    /\ Executing("ExecuteToolsNode")
    /\ IF lock = "poisoned"
       THEN ReturnErr("Failed to read state") /\ et' = et
       ELSE /\ et' = [pc |-> "loop", pending_calls |-> st.pending_tool_calls,
                      call |-> None, result |-> None, entry |-> Some(st),
                      guard |-> "none"]
            /\ UNCHANGED <<phase, status, current, iterations, st, error, hist>>
    /\ UNCHANGED <<input, graph, uuid>>
    /\ UNCHANGED apiVars
    /\ UNCHANGED lock

\* mutant: the snapshot consumed from its end
ExecuteTools_dispatch_from_end ==
    /\ phase = "run" /\ status = "Running"
    /\ et.pc = "loop"
    /\ et.pending_calls # <<>>
    /\ et' = [et EXCEPT !.pc = "await",
                        !.pending_calls = SubSeq(@, 1, Len(@) - 1),
                        !.call = Some(et.pending_calls[Len(et.pending_calls)])]
    /\ UNCHANGED <<input, phase, graph, status, current, iterations, st, uuid, error, hist>>
    /\ UNCHANGED apiVars
    /\ UNCHANGED lock

\* self.tool_registry.execute(&call) is called for the next call of the snapshot
ExecuteTools_dispatch ==
    /\ phase = "run" /\ status = "Running"
    /\ et.pc = "loop"
    /\ et.pending_calls # <<>>
    /\ et' = [et EXCEPT !.pc = "await", !.pending_calls = Tail(@),
                        !.call = Some(Head(et.pending_calls))]
    /\ UNCHANGED <<input, phase, graph, status, current, iterations, st, uuid, error, hist>>
    /\ UNCHANGED apiVars
    /\ UNCHANGED lock

\* .await: the tool returns
ExecuteTools_await ==
    /\ phase = "run" /\ status = "Running"
    /\ et.pc = "await"
    /\ et' = [et EXCEPT !.pc = "write",
                        !.result = Some(ToolRegistry_execute(create_tool_registry,
                                                             et.call[1]))]
    /\ UNCHANGED <<input, phase, graph, status, current, iterations, st, uuid, error, hist>>
    /\ UNCHANGED apiVars
    /\ UNCHANGED lock

\* mutant: an error result of the tool propagated as the node's own error
ExecuteTools_write_propagates ==
    /\ phase = "run" /\ status = "Running"
    /\ et.pc = "write"
    /\ IF lock = "poisoned"
       THEN ReturnErr("Failed to write state") /\ et' = EtIdle /\ uuid' = uuid
       ELSE IF et.result[1].is_error
       THEN /\ ReturnErr("tool error")
            /\ et' = EtIdle
            /\ uuid' = uuid
       ELSE /\ st' = add_tool_result(st, Uuid(uuid + 1), et.call[1].id,
                                     as_str(et.result[1]), clock)
            /\ uuid' = uuid + 1
            /\ et' = [et EXCEPT !.pc = "loop", !.call = None, !.result = None,
                                !.guard = "none"]
            /\ UNCHANGED <<phase, status, current, iterations, error, hist>>
    /\ UNCHANGED <<input, graph>>
    /\ UNCHANGED apiVars
    /\ UNCHANGED lock

\* mutant: the write guard bound outside the body of the loop, alive until the node
\* returns
ExecuteTools_write_keeps_guard ==
    /\ phase = "run" /\ status = "Running"
    /\ et.pc = "write"
    /\ IF lock = "poisoned"
       THEN ReturnErr("Failed to write state") /\ et' = EtIdle /\ uuid' = uuid
       ELSE /\ st' = add_tool_result(st, Uuid(uuid + 1), et.call[1].id,
                                     as_str(et.result[1]), clock)
            /\ uuid' = uuid + 1
            /\ et' = [et EXCEPT !.pc = "loop", !.call = None, !.result = None,
                                !.guard = "write"]
            /\ UNCHANGED <<phase, status, current, iterations, error, hist>>
    /\ UNCHANGED <<input, graph>>
    /\ UNCHANGED apiVars
    /\ UNCHANGED lock

ExecuteTools_write ==
    /\ phase = "run" /\ status = "Running"
    /\ et.pc = "write"
    /\ IF lock = "poisoned"
       THEN ReturnErr("Failed to write state") /\ et' = EtIdle /\ uuid' = uuid
       ELSE /\ st' = add_tool_result(st, Uuid(uuid + 1), et.call[1].id,
                                     as_str(et.result[1]), clock)
            /\ uuid' = uuid + 1
            /\ et' = [et EXCEPT !.pc = "loop", !.call = None, !.result = None,
                                !.guard = "none"]
            /\ UNCHANGED <<phase, status, current, iterations, error, hist>>
    /\ UNCHANGED <<input, graph>>
    /\ UNCHANGED apiVars
    /\ UNCHANGED lock

ExecuteTools_clear ==
    /\ phase = "run" /\ status = "Running"
    /\ et.pc = "loop"
    /\ et.pending_calls = <<>>
    /\ LET s2 == clear_tool_calls(st, clock)
           h == [hist EXCEPT !.tools = Append(@, [entry |-> et.entry[1], exit |-> s2])]
       IN  IF lock = "poisoned"
           THEN ReturnErr("Failed to clear tool calls")
           ELSE Return("Continue", s2, h)
    /\ et' = EtIdle
    /\ UNCHANGED <<input, graph, uuid>>
    /\ UNCHANGED apiVars
    /\ UNCHANGED lock

----------------------------------------------------------------------------
(* Specification of a run *)

IdleState == WxorcaState_new(AdminSetup, Uuid(0), 0)

Init ==
    /\ input \in Inputs
    /\ phase = "build"
    /\ graph = None
    /\ status = "Idle"
    /\ current = END
    /\ iterations = 0
    /\ st = IdleState
    /\ et = EtIdle
    /\ uuid = 0
    /\ error = None
    /\ hist = NoHistory
    /\ wx = IdleState
    /\ clock = 0
    /\ last = [op |-> "new", before |-> IdleState, n |-> 0, at |-> 0]
    /\ lock = "ok"
    /\ db = <<>>
    /\ io = NoIo

Next ==
    \/ ProcessMessage
    \/ RunExhausted
    \/ Poison
    \/ AnalyzeQueryNode_execute
    \/ DiagnoseNode_execute
    \/ AssessmentNode_execute
    \/ DocsCategoryNode_execute
    \/ AdminSearchNode_execute
    \/ UsageSearchNode_execute
    \/ ExampleFetchNode_execute
    \/ TroubleshootSearchNode_execute
    \/ BestPracticesSearchNode_execute
    \/ DocsSearchNode_execute
    \/ AdminResponseNode_execute
    \/ UsageResponseNode_execute
    \/ TroubleshootResponseNode_execute
    \/ BestPracticesResponseNode_execute
    \/ DocsResponseNode_execute
    \/ ExecuteTools_snapshot
    \/ ExecuteTools_dispatch
    \/ ExecuteTools_await
    \/ ExecuteTools_write
    \/ ExecuteTools_clear

Spec == Init /\ [][Next]_vars

----------------------------------------------------------------------------
(* Specification of a WxorcaState driven through its public methods *)

IdleInput == CHOOSE in \in Inputs : in.which = AdminSetup /\ in.message = None
                                    /\ in.session = None /\ in.calls = <<>>

ApiInit ==
    /\ input = IdleInput
    /\ phase = "done"
    /\ graph = None
    /\ status = "Idle"
    /\ current = END
    /\ iterations = 0
    /\ st = IdleState
    /\ et = EtIdle
    /\ error = None
    /\ hist = NoHistory
    /\ uuid = 1
    /\ clock \in 0..1
    /\ \E agent_type \in {AdminSetup, UsageAssistant} :
          \/ wx = WxorcaState_new(agent_type, Uuid(1), clock)
          \/ \E sid \in SessionIds : wx = with_session_id(agent_type, sid, Uuid(1), clock)
    /\ last = [op |-> "new", before |-> wx, n |-> 0, at |-> clock]
    /\ lock = "ok"
    /\ db = <<>>
    /\ io = NoIo

\* no run in progress or over: the program only calls methods on wx
Direct == phase = "done" /\ status = "Idle" /\ error = None

\* one method call on wx, leaving it as `after` and drawing `ids` fresh ids
Call(op, after, ids) ==
    /\ Direct
    /\ last.n < MaxOps
    /\ wx' = after
    /\ last' = [op |-> op, before |-> wx, n |-> last.n + 1, at |-> clock]
    /\ uuid' = uuid + ids
    /\ UNCHANGED <<input, phase, graph, status, current, iterations, st, et, error, hist,
                   clock, lock, db, io>>

Api_add_user_message ==
    Call("add_user_message", add_user_message(wx, Uuid(uuid + 1), <<"Hello">>, clock), 1)

Api_add_assistant_message ==
    Call("add_assistant_message",
         add_assistant_message(wx, Uuid(uuid + 1), <<"Hi", "there!">>, clock), 1)

Api_add_tool_result ==
    Call("add_tool_result",
         add_tool_result(wx, Uuid(uuid + 1), <<"call", 1>>, <<"docs_json">>, clock), 1)

Api_add_tool_call ==
    Call("add_tool_call",
         add_tool_call(wx, <<"call", 1>>, "search_docs",
                       [k \in {"query"} |-> JString(<<"setup">>)], clock), 0)

Api_clear_tool_calls == Call("clear_tool_calls", clear_tool_calls(wx, clock), 0)

Api_mark_complete == Call("mark_complete", mark_complete(wx, clock), 0)

Api_increment_iteration == Call("increment_iteration", increment_iteration(wx, clock), 0)

Api_set_metadata ==
    Call("set_metadata", set_metadata(wx, "topic", JString(<<"setup">>), clock), 0)

\* time passes between two calls
Tick ==
    /\ Direct
    /\ clock < MaxClock
    /\ clock' = clock + 1
    /\ UNCHANGED <<wx, last, db, io>>
    /\ UNCHANGED runVars
    /\ UNCHANGED lock

ApiNext ==
    \/ Api_add_user_message
    \/ Api_add_assistant_message
    \/ Api_add_tool_result
    \/ Api_add_tool_call
    \/ Api_clear_tool_calls
    \/ Api_mark_complete
    \/ Api_increment_iteration
    \/ Api_set_metadata
    \/ Tick

ApiSpec == ApiInit /\ [][ApiNext]_vars

----------------------------------------------------------------------------
(* Specification of the tools called on their own, as their unit tests call them *)

ToolQueries ==
    { <<>>, <<"setup">>, <<"guide">>, <<"skill">>, <<"api">>, <<"unrelated">>,
      <<"Salesforce", "setup">> }

ToolLimits == {0, 1, 2, 3, MaxLimit}

\* the argument objects with a text under `key`, an optional limit and an optional
\* filter under `filter_key`
CatalogArguments(key, filter_key, filters) ==
    LET text == {(key :> JString(q)) : q \in ToolQueries}
        limit == {EmptyMap} \cup {("limit" :> JNumber(n)) : n \in ToolLimits}
                 \cup {("limit" :> JString(<<"3">>))}
        filter == {EmptyMap} \cup {(filter_key :> JString(<<f>>)) : f \in filters}
    IN  {t @@ l @@ f : t \in text, l \in limit, f \in filter}
        \cup {l @@ f : l \in limit, f \in filter}

SearchDocsArguments == CatalogArguments("query", "category", {"admin", "user", "Admin"})

FetchExamplesArguments ==
    CatalogArguments("topic", "language", {"python", "Python", "rust"})

\* a name of n characters, all of them ch
Repeat(ch, n) == [i \in 1..n |-> ch]

\* the number of characters of the longest name tried
MaxName == 65

\* skill names: the two of the tests, and names around the limit of 64, in ASCII
\* and in a two-byte character
SkillNames ==
    { <<"m", "y", "_", "s", "k", "i", "l", "l">>,
      <<"m", "y", " ", "i", "n", "v", "a", "l", "i", "d", " ", "s", "k", "i", "l", "l">> }
    \cup {Repeat("a", n) : n \in {0, 1, MaxName - 2, MaxName - 1, MaxName}}
    \cup {Repeat("é", n) : n \in {1, 32, 33, MaxName - 1}}

\* the objects with any of the optional members, each holding `value`
WithAnyOf(keys, value) == {[k \in present |-> value] : present \in SUBSET keys}

SkillConfigs ==
    LET name == {EmptyMap, ("name" :> JNumber(5))}
                \cup {("name" :> JString(n)) : n \in SkillNames}
    IN  {JObject(n @@ o) :
            n \in name, o \in WithAnyOf({"description", "input_schema"}, JObject(EmptyMap))}

WorkflowConfigs ==
    LET step == [skill_id |-> JString(<<"lookup">>)]
        steps == { EmptyMap,
                   ("steps" :> JString(<<"none">>)),
                   ("steps" :> JArray(<<>>)),
                   ("steps" :> JArray(<<JObject(step)>>)),
                   ("steps" :> JArray(<<JObject(step), JObject(EmptyMap)>>)) }
    IN  {JObject(s1 @@ o) :
            s1 \in steps, o \in WithAnyOf({"name", "error_handling"}, JString(<<"x">>))}

IntegrationConfigs ==
    LET credentials == { EmptyMap,
                         ("credentials" :> JObject(EmptyMap)),
                         ("credentials" :> JObject([password |-> JString(<<"secret">>)])) }
    IN  {JObject(c @@ o) :
            c \in credentials, o \in WithAnyOf({"type", "rate_limit"}, JString(<<"x">>))}

AuthConfigs ==
    LET method == {EmptyMap} \cup {("method" :> JString(<<m>>)) : m \in {"basic", "oauth", "saml"}}
        session == {EmptyMap}
                   \cup {("session" :> JObject([timeout |-> JNumber(t)])) : t \in {86400, 86401}}
    IN  {JObject(m @@ x @@ o) :
            m \in method, x \in session, o \in WithAnyOf({"token_refresh"}, JBool(TRUE))}

ValidateConfigArguments ==
    LET configs == SkillConfigs \cup WorkflowConfigs \cup IntegrationConfigs \cup AuthConfigs
                   \cup {JString(<<"not an object">>)}
        types == {("config_type" :> JString(<<t>>)) : t \in ConfigType \cup {"unknown"}}
    IN  {EmptyMap} \cup types \cup {t @@ ("config" :> c) : t \in types, c \in configs}

ToolInit ==
    /\ input = IdleInput
    /\ phase = "done"
    /\ graph = None
    /\ status = "Idle"
    /\ current = END
    /\ iterations = 0
    /\ st = IdleState
    /\ et = EtIdle
    /\ error = None
    /\ hist = NoHistory
    /\ uuid = 0
    /\ clock = 0
    /\ wx = IdleState
    /\ last = [op |-> "new", before |-> IdleState, n |-> 0, at |-> 0]
    /\ lock = "ok"
    /\ db = <<>>
    /\ io = NoIo

\* tool.execute(arguments).await, the call and what it returned kept in et
Invoke(name, arguments) ==
    /\ et.pc = "idle"
    /\ et' = [EtIdle EXCEPT !.pc = "called",
                            !.call = Some(PendingToolCall(<<"call", 1>>, name, arguments)),
                            !.result = Some(Tool_execute(name, arguments))]
    /\ UNCHANGED <<input, phase, graph, status, current, iterations, st, uuid, error, hist>>
    /\ UNCHANGED apiVars
    /\ UNCHANGED lock

Invoke_search_docs == \E arguments \in SearchDocsArguments : Invoke("search_wxo_docs", arguments)

Invoke_fetch_examples ==
    \E arguments \in FetchExamplesArguments : Invoke("fetch_wxo_examples", arguments)

Invoke_validate_config ==
    \E arguments \in ValidateConfigArguments : Invoke("validate_wxo_config", arguments)

ToolNext ==
    \/ Invoke_search_docs
    \/ Invoke_fetch_examples
    \/ Invoke_validate_config

ToolSpec == ToolInit /\ [][ToolNext]_vars

----------------------------------------------------------------------------
(* The conversation store (db.rs) and a caller that saves and loads sessions *)

\* the name of a variant under #[serde(rename_all = "kebab-case")]
kebab_case(agent_type) ==
    CASE agent_type = AdminSetup -> "admin-setup"
      [] agent_type = UsageAssistant -> "usage-assistant"
      [] agent_type = Troubleshoot -> "troubleshoot"
      [] agent_type = BestPractices -> "best-practices"
      [] agent_type = DocsHelper -> "docs-helper"

\* A string held by the store is the sequence of its pieces: the string admin-setup
\* is <<"admin-setup">>.  serde_json::to_string of a unit variant is the JSON text of
\* its name: a quote, the name, a quote.
serde_json_to_string(agent_type) == <<"\"", kebab_case(agent_type), "\"">>

\* Deserialize for AgentType: the string has to be the name of a variant
AgentType_deserialize(string) ==
    IF \E a \in AgentTypes : string = <<kebab_case(a)>>
    THEN Ok(CHOOSE a \in AgentTypes : string = <<kebab_case(a)>>)
    ELSE Err(<<"unknown variant">>)

\* SELECT * FROM conversations WHERE session_id = $session_id
select_conversations(table, session_id) ==
    SelectSeq(table, LAMBDA row : row.session_id = session_id)

\* the two statements of save_conversation: UPDATE ... WHERE session_id = $session_id,
\* then CREATE when the SELECT finds no row
save_conversation(table, state, now) ==
    LET updated ==
            [i \in 1..Len(table) |->
                IF table[i].session_id = state.session_id
                THEN [table[i] EXCEPT !.agent_type = serde_json_to_string(state.agent_type),
                                      !.messages = state.messages,
                                      !.updated_at = now]
                ELSE table[i]]
    IN  IF select_conversations(updated, state.session_id) = <<>>
        THEN Append(updated,
                    [session_id |-> state.session_id,
                     agent_type |-> serde_json_to_string(state.agent_type),
                     messages |-> state.messages,
                     created_at |-> state.created_at,
                     updated_at |-> now])
        ELSE updated

\* result.take(0)?: every selected row deserialized as a ConversationRecord
take(rows) ==
    IF \E i \in 1..Len(rows) : ~ AgentType_deserialize(rows[i].agent_type).ok
    THEN Err(<<"Db", "unknown variant">>)
    ELSE Ok([i \in 1..Len(rows) |->
                [rows[i] EXCEPT !.agent_type = AgentType_deserialize(@).v]])

load_conversation(table, session_id, fresh_session, now) ==
    LET records == take(select_conversations(table, session_id))
    IN  IF ~ records.ok THEN records
        ELSE IF records.v = <<>> THEN Ok(None)
        ELSE LET record == records.v[1]
                 state == with_session_id(record.agent_type, record.session_id,
                                          fresh_session, now)
             IN  Ok(Some([state EXCEPT !.messages = record.messages,
                                       !.created_at = record.created_at,
                                       !.updated_at = record.updated_at]))

\* DELETE FROM conversations WHERE session_id = $session_id
delete_conversation(table, session_id) ==
    SelectSeq(table, LAMBDA row : row.session_id # session_id)

\* the session ids the caller works with
DbSessionIds == {<<"session", 1>>, <<"session", 2>>}

DbInit ==
    /\ input = IdleInput
    /\ phase = "done"
    /\ graph = None
    /\ status = "Idle"
    /\ current = END
    /\ iterations = 0
    /\ st = IdleState
    /\ et = EtIdle
    /\ error = None
    /\ hist = NoHistory
    /\ uuid = 1
    /\ clock = 0
    /\ \E agent_type \in AgentTypes, sid \in DbSessionIds :
          wx = with_session_id(agent_type, sid, Uuid(1), clock)
    /\ last = [op |-> "new", before |-> wx, n |-> 0, at |-> clock]
    /\ lock = "ok"
    /\ db = <<>>
    /\ io = NoIo

\* one call by the holder of a Database, its result kept in last
DbCall(op, session_id, result, table, state, ids) ==
    /\ Direct
    /\ last.n < MaxOps
    /\ db' = table
    /\ wx' = state
    /\ uuid' = uuid + ids
    /\ last' = [op |-> op, before |-> wx, n |-> last.n + 1, at |-> clock,
                session_id |-> session_id, result |-> result]
    /\ UNCHANGED <<input, phase, graph, status, current, iterations, st, et, error, hist,
                   clock, lock, io>>

Db_save_conversation ==
    DbCall("save_conversation", wx.session_id, Ok(None),
           save_conversation(db, wx, clock), wx, 0)

\* the caller goes on with the loaded state when there is one
Db_load_conversation ==
    \E session_id \in DbSessionIds :
        LET result == load_conversation(db, session_id, Uuid(uuid + 1), clock)
        IN  DbCall("load_conversation", session_id, result, db,
                   IF result.ok /\ result.v # None THEN result.v[1] ELSE wx, 1)

Db_delete_conversation ==
    \E session_id \in DbSessionIds :
        DbCall("delete_conversation", session_id, Ok(None),
               delete_conversation(db, session_id), wx, 0)

\* the caller turns to another session
Db_with_session_id ==
    \E agent_type \in AgentTypes, session_id \in DbSessionIds :
        DbCall("with_session_id", session_id, Ok(None), db,
               with_session_id(agent_type, session_id, Uuid(uuid + 1), clock), 1)

\* the conversation goes on by one message
Db_add_user_message ==
    DbCall("add_user_message", wx.session_id, Ok(None), db,
           add_user_message(wx, Uuid(uuid + 1), <<"Hello">>, clock), 1)

DbNext ==
    \/ Db_save_conversation
    \/ Db_load_conversation
    \/ Db_delete_conversation
    \/ Db_with_session_id
    \/ Db_add_user_message
    \/ Tick

DbSpec == DbInit /\ [][DbNext]_vars

----------------------------------------------------------------------------
(* A run whose shared state has a second writer *)

\* the call the other holder of the SharedState appends
OtherCall ==
    PendingToolCall(<<"other", 1>>, "search_wxo_docs",
                    [k \in {"query"} |-> JString(<<"setup">>)])

\* Another holder of the Arc<RwLock<AgentState>> takes the write lock while the
\* tool-execution node is between its snapshot and its clear, and pushes one call.
OtherWriter_push_tool_call ==
    /\ phase = "run" /\ status = "Running"
    /\ et.pc \in {"loop", "await", "write"}
    /\ lock = "ok"
    /\ OtherCall.id \notin hist.issued
    /\ st' = push_tool_call(st, OtherCall)
    /\ hist' = [hist EXCEPT !.issued = @ \cup {OtherCall.id}]
    /\ UNCHANGED <<input, phase, graph, status, current, iterations, et, uuid, error>>
    /\ UNCHANGED apiVars
    /\ UNCHANGED lock

RaceNext == Next \/ OtherWriter_push_tool_call

RaceSpec == Init /\ [][RaceNext]_vars

----------------------------------------------------------------------------
(* convert_to_agent_state applied to the states the public methods build *)

\* the conversion of wx, its result kept in st
Api_convert_to_agent_state ==
    /\ Direct
    /\ last.n < MaxOps + 1
    /\ last.op # "convert_to_agent_state"
    /\ st' = convert_to_agent_state(wx, uuid, clock)
    /\ uuid' = uuid + 3 + Len(wx.messages)
    /\ last' = [op |-> "convert_to_agent_state", before |-> wx, n |-> last.n + 1,
                at |-> clock]
    /\ UNCHANGED <<input, phase, graph, status, current, iterations, et, error, hist,
                   wx, clock, lock, db, io>>

ConvertNext == ApiNext \/ Api_convert_to_agent_state

ConvertSpec == ApiInit /\ [][ConvertNext]_vars

\* both ways of using the crate: a run of process_message, or direct method calls
AllInit == Init \/ ApiInit

AllNext == Next \/ ApiNext

AllSpec == AllInit /\ [][AllNext]_vars

----------------------------------------------------------------------------
(* Properties *)

Trace == hist.trace

\* node executions begun so far, the one still suspended included
Begun == Len(Trace) + (IF et.pc = "idle" THEN 0 ELSE 1)

Roles(msgs) == [i \in 1..Len(msgs) |-> msgs[i].role]

\* the tool messages of msgs that answer the call with this id
Answers(msgs, id) ==
    {i \in 1..Len(msgs) : msgs[i].role = "tool" /\ msgs[i].tool_call_id = Some(id)}

\* C1: a run never executes more than max_iterations nodes and then halts; the graph
\* whose conditional edge routes its node back to itself halts Failed with the
\* exhaustion error after exactly the 10 executions the CLI configures.
C1_RunBounded ==
    /\ iterations = Len(Trace)
    /\ Begun <= max_iterations
    /\ (phase = "run" /\ iterations >= max_iterations) => ENABLED RunExhausted
    /\ (input.which = SelfLoop /\ phase = "done" /\ lock = "ok") =>
            /\ status = "Failed"
            /\ error = Some("maximum iterations reached")
            /\ Len(Trace) = 10

C1_Witness ==
    /\ input.which = SelfLoop
    /\ phase = "done"
    /\ status = "Failed"
    /\ Len(Trace) = max_iterations

\* C2: after respond returns Finish, a non-empty pending list makes execute_tools the
\* next node executed; an empty one ends the run Finished with is_complete set, and
\* nothing executes after it.
C2_RespondRouting ==
    \A i \in 1..Len(Trace) :
        (Trace[i].node = "respond" /\ Trace[i].signal = "Finish") =>
            IF Trace[i].pending > 0
            THEN /\ i < Len(Trace) => Trace[i + 1].node = "execute_tools"
                 /\ i = Len(Trace) => (status = "Running" /\ current = "execute_tools")
            ELSE /\ i = Len(Trace)
                 /\ status = "Finished"
                 /\ phase = "done"
                 /\ st.is_complete

C2_Witness ==
    /\ phase = "done"
    /\ status = "Finished"
    /\ \E i \in 1..(Len(Trace) - 1) :
          /\ Trace[i].node = "respond" /\ Trace[i].pending > 0
          /\ Trace[i + 1].node = "execute_tools"
    /\ Trace[Len(Trace)].node = "respond" /\ Trace[Len(Trace)].pending = 0

\* C3: when the tool-execution node returns, the pending list is empty and the
\* messages are those at entry followed by exactly one tool message per call that
\* was pending at entry, tagged with that call's id.
C3_ToolsDrained ==
    \A k \in 1..Len(hist.tools) :
        LET entry == hist.tools[k].entry
            exit == hist.tools[k].exit
            calls == entry.pending_tool_calls
            added == SubSeq(exit.messages, Len(entry.messages) + 1, Len(exit.messages))
        IN  /\ exit.pending_tool_calls = <<>>
            /\ ~ has_pending_tool_calls(exit)
            /\ SubSeq(exit.messages, 1, Len(entry.messages)) = entry.messages
            /\ Len(added) = Len(calls)
            /\ \A j \in 1..Len(added) : added[j].role = "tool"
            /\ \A c \in 1..Len(calls) : Cardinality(Answers(added, calls[c].id)) = 1

C3_Witness ==
    \E k \in 1..Len(hist.tools) :
        /\ Len(hist.tools[k].entry.pending_tool_calls) >= 2
        /\ hist.tools[k].exit.pending_tool_calls = <<>>

\* C4: the admin graph run on one non-empty user message and no other pending call
\* ends Finished and complete with, after the system prompt, exactly the user
\* message, one tool result and one assistant message, in this order.
C4_EndToEnd ==
    ( /\ input.which = AdminSetup
      /\ input.calls = <<>>
      /\ input.message # None
      /\ input.message # Some(<<>>)
      /\ lock = "ok"
      /\ phase = "done" ) =>
        /\ status = "Finished"
        /\ st.is_complete
        /\ Roles(st.messages) = <<"system", "user", "tool", "assistant">>

\* C5: is_complete is set once in a run, by a response node that leaves no tool call
\* pending, and is not reset afterwards.
C5_CompleteOnce ==
    /\ Len(hist.completes) <= 1
    /\ \A i \in 1..Len(hist.completes) :
          hist.completes[i].node = "respond" /\ hist.completes[i].pending = 0
    /\ \A i \in 1..Len(Trace) : \A j \in i..Len(Trace) :
          Trace[i].is_complete => Trace[j].is_complete

\* C6: a second mark_complete leaves is_complete true and every field but updated_at
\* as the first call left it.
C6_MarkCompleteIdempotent ==
    (last.op = "mark_complete" /\ last.before.is_complete) =>
        /\ wx.is_complete
        /\ wx.messages = last.before.messages
        /\ wx.pending_tool_calls = last.before.pending_tool_calls
        /\ wx.context = last.before.context
        /\ wx.iteration = last.before.iteration
        /\ wx.session_id = last.before.session_id
        /\ wx.agent_type = last.before.agent_type
        /\ wx.created_at = last.before.created_at

C6_Witness ==
    /\ last.op = "mark_complete"
    /\ last.before.is_complete
    /\ wx.messages # <<>>
    /\ wx.updated_at > last.before.updated_at

\* the errors a node returns when it cannot acquire the state lock
LockErrors ==
    {"Failed to acquire state lock", "Failed to read state", "Failed to write state",
     "Failed to clear tool calls"}

Registered(name) == \E i \in 1..Len(create_tool_registry) : create_tool_registry[i] = name

\* the caller-supplied calls that name no registered tool
UnknownCalls == {c \in 1..Len(input.calls) : ~ Registered(input.calls[c].name)}

\* the caller-supplied calls to a registered tool that lack a required field
RejectedCalls ==
    {c \in 1..Len(input.calls) :
        LET name == input.calls[c].name
            arguments == input.calls[c].arguments
        IN  \/ name = "fetch_wxo_examples" /\ ~ has_string(arguments, "topic")
            \/ name = "search_wxo_docs" /\ ~ has_string(arguments, "query")
            \/ name = "validate_wxo_config" /\ ~ has_string(arguments, "config_type")}

ToolsReturnedContinue ==
    \A i \in 1..Len(Trace) : Trace[i].node = "execute_tools" => Trace[i].signal = "Continue"

\* C7: a pending call naming an unregistered tool does not fail the tool-execution
\* node: one tool message tagged with the call's id and holding an error text is
\* appended, the pending list is cleared and the run ends Finished.
C7_UnknownToolAbsorbed ==
    (input.which \in AgentTypes /\ UnknownCalls # {} /\ phase = "done" /\ lock = "ok") =>
        /\ status = "Finished"
        /\ st.pending_tool_calls = <<>>
        /\ ToolsReturnedContinue
        /\ \A c \in UnknownCalls :
              /\ Cardinality(Answers(st.messages, input.calls[c].id)) = 1
              /\ \A i \in Answers(st.messages, input.calls[c].id) :
                    st.messages[i].content = <<"Error", "unknown tool">>

C7_Witness ==
    /\ input.which \in AgentTypes
    /\ phase = "done"
    /\ status = "Finished"
    /\ \E c \in UnknownCalls : \E i \in Answers(st.messages, input.calls[c].id) :
          st.messages[i].content[1] = "Error"

\* C8: a ToolError returned by a registered tool becomes a tool message holding the
\* error text; the tool-execution node returns Continue, respond executes next and
\* the run ends Finished.  A run fails only for an error that is not a tool's.
C8_ToolErrorAbsorbed ==
    /\ (input.which \in AgentTypes /\ RejectedCalls # {} /\ phase = "done" /\ lock = "ok") =>
          /\ status = "Finished"
          /\ \A c \in RejectedCalls :
                /\ Answers(st.messages, input.calls[c].id) # {}
                /\ \A i \in Answers(st.messages, input.calls[c].id) :
                      st.messages[i].content = <<"Error", "ToolError", "Invalid arguments">>
          /\ \A i \in 1..Len(Trace) :
                Trace[i].node = "execute_tools" =>
                    /\ Trace[i].signal = "Continue"
                    /\ i < Len(Trace)
                    /\ Trace[i + 1].node = "respond"
    /\ status = "Failed" =>
          error \in {Some("maximum iterations reached"), Some("node not found")}
                     \cup {Some(e) : e \in LockErrors}

C8_Witness ==
    /\ phase = "done"
    /\ status = "Finished"
    /\ RejectedCalls # {}
    /\ \E i \in 1..Len(st.messages) :
          st.messages[i].content = <<"Error", "ToolError", "Invalid arguments">>
    /\ Trace[Len(Trace)].node = "respond"

\* states on which the routing functions are probed: with and without a pending
\* call, with user_intent missing, of another type, "example" and "howto"
ProbeStates ==
    LET base == WxorcaState_new(AdminSetup, Uuid(0), 0)
        call == PendingToolCall(<<"call", 1>>, "search_wxo_docs", EmptyMap)
        withIntent == {base} \cup
                      {set_context(base, "user_intent", v, 0) :
                          v \in {JString(<<"example">>), JString(<<"howto">>), JBool(TRUE)}}
    IN  withIntent \cup {push_tool_call(s, call) : s \in withIntent}

Destinations(router) == {Route(router, s) : s \in ProbeStates}

\* a definition GraphBuilder can compile and the runner can always route in
WellFormed(b) ==
    /\ b.entry = Some("analyze")
    /\ "analyze" \in NodeIds(b)
    /\ \A i \in 1..Len(b.edges) :
          b.edges[i][1] \in NodeIds(b) /\ b.edges[i][2] \in NodeIds(b) \cup {END}
    /\ \A i \in 1..Len(b.conditional) :
          /\ b.conditional[i][1] \in NodeIds(b)
          /\ Destinations(b.conditional[i][2]) \subseteq NodeIds(b) \cup {END}
    /\ \A n \in NodeIds(b) :
          /\ ~ (UnconditionalFrom(b, n) # {} /\ ConditionalFrom(b, n) # {})
          /\ Cardinality(UnconditionalFrom(b, n)) <= 1

\* C9: build_agent_graph succeeds for each of the five agent types, and each graph
\* is well formed: entry point analyze registered, every edge endpoint and routing
\* destination a registered node or END, no node with both kinds of edge or with
\* several unconditional edges.
C9_AgentGraphsBuild ==
    /\ Len(AgentType_all) = 5
    /\ Cardinality(AgentTypes) = 5
    /\ \A a \in AgentTypes : build_agent_graph(a).ok /\ WellFormed(agent_builder(a))
    /\ (input.which \in AgentTypes /\ phase # "build") =>
          /\ graph = Some(build_agent_graph(input.which).v)
          /\ error # Some("node not found")
          /\ status # "Idle"

C9_Witness ==
    /\ input.which = UsageAssistant
    /\ phase = "done"
    /\ status = "Finished"
    /\ \E i \in 1..Len(Trace) : Trace[i].node = "fetch_examples"

\* some node has a conditional and an unconditional edge, or several unconditional ones
Conflicting(b) ==
    \E n \in NodeIds(b) :
        \/ UnconditionalFrom(b, n) # {} /\ ConditionalFrom(b, n) # {}
        \/ Cardinality(UnconditionalFrom(b, n)) > 1

----------------------------------------------------------------------------
(* What process_message returns once the run is over *)

Apology == <<"I", "apologize,", "but", "I", "couldn't", "generate", "a", "response.">>

\* mutant: the error arm answers with the fallback text of the Ok arm
AgentResponse_apologises ==
    IF graph = None
    THEN [response |-> <<>>, error |-> Some(<<"Failed to build agent graph", error[1]>>)]
    ELSE IF status = "Finished"
    THEN [response |-> LET m == last_assistant_message(st)
                       IN  IF m = None THEN Apology ELSE m[1].content,
          error |-> None]
    ELSE [response |-> Apology,
          error |-> Some(<<"Agent execution failed", error[1]>>)]

AgentResponse ==
    IF graph = None
    THEN [response |-> <<>>, error |-> Some(<<"Failed to build agent graph", error[1]>>)]
    ELSE IF status = "Finished"
    THEN [response |-> LET m == last_assistant_message(st)
                       IN  IF m = None THEN Apology ELSE m[1].content,
          error |-> None]
    ELSE [response |-> <<>>,
          error |-> Some(<<"Agent execution failed", error[1]>>)]

\* C11: a node that returns an error ends the run at once: it is the last node
\* executed, it is not executed again, the run is Failed with the node's error, and
\* process_message reports that error with an empty response.
C11_NodeErrorHalts ==
    \A i \in 1..Len(Trace) :
        Trace[i].signal = "Error" =>
            /\ i = Len(Trace)
            /\ iterations = i
            /\ phase = "done"
            /\ status = "Failed"
            /\ error # None
            /\ error[1] \in LockErrors
            /\ AgentResponse.response = <<>>
            /\ AgentResponse.error = Some(<<"Agent execution failed", error[1]>>)

C11_Witness ==
    /\ phase = "done"
    /\ status = "Failed"
    /\ Len(Trace) >= 2
    /\ Trace[Len(Trace)].signal = "Error"
    /\ Trace[Len(Trace)].node = "execute_tools"
    /\ last_assistant_message(st) # None

\* C12: every tool message of a run carries the id of a call that was in the pending
\* list at an earlier point of the run.
C12_ToolMessagesReferToCalls ==
    \A i \in 1..Len(st.messages) :
        st.messages[i].role = "tool" =>
            /\ st.messages[i].tool_call_id # None
            /\ st.messages[i].tool_call_id[1] \in hist.issued

C12_Witness ==
    /\ phase = "done"
    /\ input.calls # <<>>
    /\ \E i, j \in 1..Len(st.messages) :
          /\ st.messages[i].role = "tool"
          /\ st.messages[i].tool_call_id[1] \in CallIds(input.calls)
          /\ st.messages[j].role = "tool"
          /\ st.messages[j].tool_call_id[1] \notin CallIds(input.calls)

IsPrefix(a, b) == Len(a) <= Len(b) /\ SubSeq(b, 1, Len(a)) = a

\* C13: messages are append-only: across every step of a run and every state
\* operation, the message sequence before the step is a prefix of the one after it.
C13_AppendOnly ==
    [][IsPrefix(st.messages, st'.messages) /\ IsPrefix(wx.messages, wx'.messages)]_vars

C13_Witness ==
    /\ last.op \in {"clear_tool_calls", "mark_complete", "set_metadata", "add_user_message"}
    /\ Len(last.before.messages) >= 2
    /\ IsPrefix(last.before.messages, wx.messages)

\* C14: new and with_session_id fix session_id, agent_type and created_at; no
\* mutator changes them, every mutator sets updated_at to the time of the call, and
\* updated_at is never earlier than created_at.
C14_IdentityAndTimestamps ==
    /\ wx.updated_at >= wx.created_at
    /\ last.op = "new" =>
          /\ wx.session_id \in SessionIds \cup {Uuid(1)}
          /\ wx.created_at = last.at
          /\ wx.updated_at = last.at
    /\ last.op # "new" =>
          /\ wx.session_id = last.before.session_id
          /\ wx.agent_type = last.before.agent_type
          /\ wx.created_at = last.before.created_at
          /\ wx.updated_at = last.at

C14_Witness ==
    /\ last.op = "increment_iteration"
    /\ wx.session_id \in SessionIds
    /\ wx.updated_at > last.before.updated_at
    /\ last.before.updated_at > wx.created_at

\* C15: with no user message analyze writes no context entry; every node that reads
\* original_query gets the default: no search node queues a call and each returns
\* Continue, respond still appends an assistant message, and the run ends Finished
\* without error.
C15_MissingKeyDefaults ==
    /\ \A s \in ProbeStates :
          (get_metadata(s, "user_intent") = Some(JBool(TRUE))
           \/ get_metadata(s, "user_intent") = None) =>
              /\ get_context(s, "user_intent", "string") = None
              /\ usage_route_after_analyze(s) = "search_docs"
              /\ route_by_intent(s) = "respond"
    /\ (input.which \in AgentTypes /\ input.message = None /\ lock = "ok"
        /\ phase = "done") =>
          /\ status = "Finished"
          /\ error = None
          /\ DOMAIN st.context \cap {"user_intent", "original_query", "needs_tools"} = {}
          /\ hist.issued = CallIds(input.calls)
          /\ \A i \in 1..Len(Trace) :
                /\ Trace[i].signal \in {"Continue", "Finish"}
                /\ Trace[i].node \in {"search_docs", "fetch_examples"} =>
                      /\ Trace[i].signal = "Continue"
                      /\ Trace[i].pending = Len(input.calls)
          /\ \E i \in 1..Len(Trace) : Trace[i].node = "search_docs"
          /\ last_assistant_message(st) # None
          /\ input.calls = <<>> => Roles(st.messages) = <<"system", "assistant">>

C15_Witness ==
    /\ input.which = Troubleshoot
    /\ input.message = None
    /\ input.calls = <<>>
    /\ phase = "done"
    /\ status = "Finished"
    /\ "diagnosis" \in DOMAIN st.context
    /\ Roles(st.messages) = <<"system", "assistant">>

\* the positions of the messages of one role
Positions(msgs, role) == {i \in 1..Len(msgs) : msgs[i].role = role}

Latest(msgs, role) ==
    IF Positions(msgs, role) = {} THEN None
    ELSE Some(msgs[CHOOSE i \in Positions(msgs, role) :
                        \A j \in Positions(msgs, role) : j <= i])

\* C16: last_user_message and last_assistant_message return the most recently
\* appended message of their role, whatever was appended after it, and None when the
\* state holds no message of that role.
C16_LastMessageOfRole ==
    /\ last_user_message(wx) = Latest(wx.messages, "user")
    /\ last_assistant_message(wx) = Latest(wx.messages, "assistant")
    /\ last_user_message(st) = Latest(st.messages, "user")
    /\ last_assistant_message(st) = Latest(st.messages, "assistant")

C16_Witness ==
    /\ Cardinality(Positions(wx.messages, "user")) = 2
    /\ wx.messages[Len(wx.messages)].role # "user"
    /\ last_user_message(wx) = Some(wx.messages[2])
    /\ last_assistant_message(wx) = None

\* the keyword groups of detect_intent
IntentKeywords ==
    [intent \in {"howto", "troubleshoot", "search", "example", "validate", "advice"} |->
        CASE intent = "howto" -> {<<"how", "do", "i">>, <<"how", "to">>, <<"show", "me">>}
          [] intent = "troubleshoot" ->
                {<<"error">>, <<"failed">>, <<"not", "working">>, <<"problem">>}
          [] intent = "search" ->
                {<<"documentation">>, <<"docs">>, <<"where", "can", "i", "find">>}
          [] intent = "example" -> {<<"example">>, <<"sample">>, <<"show", "me", "code">>}
          [] intent = "validate" ->
                {<<"validate">>, <<"check">>, <<"is", "this", "correct">>}
          [] intent = "advice" ->
                {<<"best", "practice">>, <<"recommend">>, <<"should", "i">>}]

\* the intents whose keyword group the query contains
IntentsOf(query) ==
    {<<intent>> : intent \in {k \in DOMAIN IntentKeywords :
                        \E kw \in IntentKeywords[k] : contains(to_lowercase(query), kw)}}

\* what test_detect_intent asserts
AssertedIntents ==
    { << <<"How", "do", "I", "create", "a", "skill", "?">>, <<"howto">> >>,
      << <<"I'm", "getting", "an", "error">>, <<"troubleshoot">> >>,
      << <<"Show", "me", "an", "example">>, <<"example">> >>,
      << <<"Is", "this", "config", "correct?">>, <<"validate">> >>,
      << <<"What's", "the", "best", "practice", "for", "this?">>, <<"advice">> >> }

\* C17: the intent analyze stores for the user's message is that of a keyword group
\* the message contains, general when it contains none, and for the five queries of
\* test_detect_intent the intent the test asserts.
C17_DetectIntent ==
    (input.message # None /\ "user_intent" \in DOMAIN st.context) =>
        LET query == input.message[1]
            intent == st.context["user_intent"].v
        IN  /\ IF IntentsOf(query) = {} THEN intent = <<"general">>
               ELSE intent \in IntentsOf(query)
            /\ \A a \in AssertedIntents : a[1] = query => intent = a[2]

\* a tool was called on its own with these arguments and returned Ok
Called(name) == et.pc = "called" /\ et.call[1].name = name /\ et.result[1].ok

CalledArguments == et.call[1].arguments

\* the catalog items that a text and a filter select, by position
Selected(catalog, text, Passes(_)) ==
    {k \in 1..Len(catalog) :
        /\ Passes(catalog[k])
        /\ (text = <<>> \/ \E i \in 1..Len(text) : LowerWord(text[i]) \in catalog[k].words)}

\* the limit a call asked for, or the tool's default
LimitAsked(default) ==
    IF "limit" \in DOMAIN CalledArguments THEN CalledArguments["limit"].v ELSE default

\* the item passes the filter the call asked for, if it asked for one
InCategory(doc) ==
    LET category == get_option(CalledArguments, "category")
    IN  category # None => doc.category = category[1]

InLanguage(example) ==
    LET language == get_option(CalledArguments, "language")
    IN  language # None => LowerWord(example.language) = LowerWord(language[1][1])

DocsReturned == from_str(et.result[1].v, MockDocs)

ExamplesReturned == from_str(et.result[1].v, MockExamples)

\* C18: search_wxo_docs and fetch_wxo_examples return at most limit items (5 and 3
\* when no limit is given); every doc has the requested category and every example
\* the requested language, compared case-insensitively; when the catalog holds an
\* item that passes the filter and matches, and limit is at least 1, the result is
\* not empty.
C18_CatalogToolsRespectArguments ==
    /\ Called("search_wxo_docs") =>
          /\ Len(DocsReturned) <= LimitAsked(5)
          /\ \A i \in 1..Len(DocsReturned) : InCategory(DocsReturned[i])
          /\ (LimitAsked(5) >= 1
              /\ Selected(MockDocs, CalledArguments["query"].v, InCategory) # {})
                => DocsReturned # <<>>
    /\ Called("fetch_wxo_examples") =>
          /\ Len(ExamplesReturned) <= LimitAsked(3)
          /\ \A i \in 1..Len(ExamplesReturned) : InLanguage(ExamplesReturned[i])
          /\ (LimitAsked(3) >= 1
              /\ Selected(MockExamples, CalledArguments["topic"].v, InLanguage) # {})
                => ExamplesReturned # <<>>

\* C18 as stated: every query or topic that matches an item of the catalog (one that
\* passes the filter, when a filter is given) yields a non-empty result, whatever
\* the limit.
C18_MatchingQueryNeverEmpty ==
    /\ (Called("search_wxo_docs")
        /\ Selected(MockDocs, CalledArguments["query"].v, InCategory) # {})
          => DocsReturned # <<>>
    /\ (Called("fetch_wxo_examples")
        /\ Selected(MockExamples, CalledArguments["topic"].v, InLanguage) # {})
          => ExamplesReturned # <<>>

C18_Witness ==
    /\ Called("search_wxo_docs")
    /\ CalledArguments = ("query" :> JString(<<"guide">>)) @@ ("limit" :> JNumber(1))
                         @@ ("category" :> JString(<<"admin">>))
    /\ et.result[1].v = <<"docs_json", "Admin Setup Guide">>

\* validate_wxo_config was called on a config of this type
Validated(config_type) ==
    /\ Called("validate_wxo_config")
    /\ CalledArguments["config_type"].v = <<config_type>>

Validation == validation_from_str(et.result[1].v)

ConfigValidated == CalledArguments["config"]

\* the name of the validated config, when it is an object with a string under "name"
NameValidated == and_then_as(get(ConfigValidated, "name"), "string")

\* C19: validate_wxo_config reports valid exactly when errors is empty; a skill
\* config whose name has no space and at most 64 characters is valid; a skill config
\* whose name is missing, has a space or has more than 64 characters is not valid and
\* its errors are not empty.
C19_ValidIffNoErrors ==
    /\ Called("validate_wxo_config") => (Validation.valid <=> Validation.errors = <<>>)
    /\ (/\ Validated("skill")
        /\ NameValidated # None
        /\ ~ contains_space(NameValidated[1])
        /\ Len(NameValidated[1]) <= 64)
          => Validation.valid
    /\ (/\ Validated("skill")
        /\ \/ get(ConfigValidated, "name") = None
           \/ NameValidated # None /\ contains_space(NameValidated[1])
           \/ NameValidated # None /\ Len(NameValidated[1]) > 64)
          => (~ Validation.valid /\ Validation.errors # <<>>)

\* the rows of the table kept under a session id
Rows(session_id) == select_conversations(db, session_id)

\* what load_conversation returns for the state just saved
Reloaded == load_conversation(db, last.session_id, Uuid(uuid + 1), clock)

\* C20: the store is a map keyed by session id: load_conversation returns None for an
\* id with no row; right after save_conversation(state) it returns a state with the
\* session_id, agent_type and messages of state; the table never holds two rows
\* with one session id.
C20_StoreIsAMap ==
    /\ \A session_id \in DbSessionIds : Len(Rows(session_id)) <= 1
    /\ (last.op = "load_conversation" /\ Rows(last.session_id) = <<>>)
          => last.result = Ok(None)
    /\ last.op = "save_conversation" =>
          /\ Reloaded.ok
          /\ Reloaded.v # None
          /\ Reloaded.v[1].session_id = last.before.session_id
          /\ Reloaded.v[1].agent_type = last.before.agent_type
          /\ Reloaded.v[1].messages = last.before.messages

\* the last node execution of the trace was the tool-execution node: st is the state
\* as that node left it
ToolsJustExited == Trace # <<>> /\ Trace[Len(Trace)].node = "execute_tools"

\* C21: however the tool-execution node exits, with an error after a failed lock
\* acquisition included, every call issued in the run is either still pending and has
\* no tool message, or is no longer pending and has exactly one tool message.
C21_ExitsConsistent ==
    ToolsJustExited =>
        \A id \in hist.issued :
            LET pending == id \in CallIds(st.pending_tool_calls)
                answers == Cardinality(Answers(st.messages, id))
            IN  \/ pending /\ answers = 0
                \/ ~ pending /\ answers = 1

\* C22: while a tool invocation is in flight the tool-execution node holds no scope
\* on the shared state: the read scope of the snapshot is released before the first
\* tool is called, and the write scope of a result opens after its tool has returned
\* and is released before the next tool is called.
C22_NoScopeAcrossAwait ==
    /\ et.pc = "await" => et.guard = "none"
    /\ et.pc = "write" => (et.guard = "none" /\ et.result # None)

C22_Witness ==
    /\ et.pc = "await"
    /\ Answers(st.messages, <<"call", 1>>) # {}
    /\ et.call[1].id # <<"call", 1>>

\* the tool-execution node is in its pass over the snapshot
InPass == et.pc \in {"loop", "await", "write"}

\* the calls that were pending when the pass began
PassCalls == et.entry[1].pending_tool_calls

\* the calls of the pass dispatched so far
Dispatched == Len(PassCalls) - Len(et.pending_calls)

\* the messages appended since the pass began
PassMessages ==
    SubSeq(st.messages, Len(et.entry[1].messages) + 1, Len(st.messages))

\* C23: in a pass of the tool-execution node the calls are dispatched in the order of
\* the pending list; the result of a call is appended before the next call is
\* dispatched, so the results stand in dispatch order; when the node returns, every
\* result is appended, the list is empty and, in the shipped graphs, respond runs next.
C23_DispatchInOrder ==
    /\ InPass =>
          LET answered == IF et.pc = "loop" THEN Dispatched ELSE Dispatched - 1
          IN  /\ et.pending_calls = SubSeq(PassCalls, Dispatched + 1, Len(PassCalls))
              /\ et.pc \in {"await", "write"} => et.call = Some(PassCalls[Dispatched])
              /\ Len(PassMessages) = answered
              /\ \A k \in 1..answered :
                    /\ PassMessages[k].role = "tool"
                    /\ PassMessages[k].tool_call_id = Some(PassCalls[k].id)
    /\ \A i \in 1..Len(Trace) :
          (Trace[i].node = "execute_tools" /\ Trace[i].signal = "Continue") =>
              /\ Trace[i].pending = 0
              /\ (input.which \in AgentTypes /\ i < Len(Trace)) => Trace[i + 1].node = "respond"
    /\ \A k \in 1..Len(hist.tools) :
          LET entry == hist.tools[k].entry
              exit == hist.tools[k].exit
          IN  /\ Len(exit.messages) = Len(entry.messages) + Len(entry.pending_tool_calls)
              /\ \A c \in 1..Len(entry.pending_tool_calls) :
                    exit.messages[Len(entry.messages) + c].tool_call_id
                        = Some(entry.pending_tool_calls[c].id)

\* the second of two calls is in flight and the first is answered
C23_Witness ==
    /\ et.pc = "await"
    /\ Len(PassCalls) = 2
    /\ Dispatched = 2
    /\ Len(PassMessages) = 1
    /\ PassMessages[1].tool_call_id = Some(PassCalls[1].id)

\* the node ids of the trace, in execution order
NodesRun == [i \in 1..Len(Trace) |-> Trace[i].node]

\* how often a node id occurs in the trace
TimesRun(node) == Cardinality({i \in 1..Len(Trace) : Trace[i].node = node})

\* the node orders the claim allows
FixedOrders ==
    LET opening == { <<"analyze">>, <<"analyze", "assess">>, <<"analyze", "diagnose">>,
                     <<"analyze", "categorize">> }
        search == { <<"search_docs">>, <<"fetch_examples">> }
        closing == { <<"respond">>, <<"respond", "execute_tools", "respond">> }
    IN  {o \o m \o c : o \in opening, m \in search, c \in closing}

\* C24: a run of a shipped agent graph that meets no lock failure ends Finished below
\* the ceiling of 10: at most 6 nodes execute, execute_tools at most once and respond
\* at most twice, in the order analyze, [assess | diagnose | categorize], search_docs
\* or fetch_examples, respond, then optionally execute_tools, respond.
C24_ShippedRunsFinish ==
    /\ input.which \in AgentTypes =>
          /\ Begun <= 6
          /\ TimesRun("execute_tools") <= 1
          /\ TimesRun("respond") <= 2
          /\ ~ ENABLED RunExhausted
    /\ (input.which \in AgentTypes /\ phase = "done" /\ lock = "ok") =>
          /\ status = "Finished"
          /\ NodesRun \in FixedOrders

C24_Witness ==
    /\ input.which = BestPractices
    /\ phase = "done"
    /\ status = "Finished"
    /\ NodesRun = <<"analyze", "assess", "search_docs", "respond", "execute_tools", "respond">>

\* the positions of the trace at which a search or fetch node executed
SearchSteps == {i \in 1..Len(Trace) : Trace[i].node \in {"search_docs", "fetch_examples"}}

\* the positions of the trace at which respond executed
RespondSteps == {i \in 1..Len(Trace) : Trace[i].node = "respond"}

\* the run has a non-empty last user message
AsksSomething == input.message # None /\ ~ is_empty(input.message[1])

\* C25: a search or fetch node that meets no lock failure returns Continue and leaves
\* one more pending call than it found when original_query is a non-empty string,
\* and the list as it found it otherwise.  Hence, in a run started by process_message,
\* at most one call is pending when respond first executes, and one is pending
\* exactly when the last user message is not empty.
C25_OneCallPerQuery ==
    input.which \in AgentTypes =>
        /\ \A i \in SearchSteps :
              Trace[i].signal # "Error" =>
                  /\ i > 1
                  /\ Trace[i].signal = "Continue"
                  /\ Trace[i].pending =
                        Trace[i - 1].pending + (IF is_empty(original_query(st)) THEN 0 ELSE 1)
        /\ (input.calls = <<>> /\ RespondSteps # {}) =>
              LET first == CHOOSE i \in RespondSteps : \A j \in RespondSteps : i <= j
              IN  /\ Trace[first - 1].pending <= 1
                  /\ Trace[first - 1].pending = 1 <=> AsksSomething

C25_Witness ==
    /\ input.which = Troubleshoot
    /\ input.calls = <<>>
    /\ AsksSomething
    /\ phase = "done"
    /\ status = "Finished"
    /\ \E i \in SearchSteps : Trace[i].pending = 1 /\ Trace[i - 1].pending = 0

\* C26: in a run of the usage-assistant graph the node after analyze is fetch_examples
\* when the context holds user_intent = "example" and search_docs otherwise, a
\* missing user_intent included; no second search or fetch node executes, and
\* respond follows the one that did.
C26_UsageRoutesByIntent ==
    input.which = UsageAssistant =>
        LET wants_example == get_context(st, "user_intent", "string") = Some(<<"example">>)
        IN  /\ \A i \in 1..Len(Trace) :
                  (Trace[i].node = "analyze" /\ Trace[i].signal = "Continue") =>
                      /\ i < Len(Trace) =>
                            Trace[i + 1].node =
                                (IF wants_example THEN "fetch_examples" ELSE "search_docs")
                      /\ i = Len(Trace) =>
                            current = (IF wants_example THEN "fetch_examples" ELSE "search_docs")
            /\ Cardinality(SearchSteps) <= 1
            /\ (phase = "done" /\ lock = "ok") => Cardinality(SearchSteps) = 1
            /\ \A i \in SearchSteps :
                  (Trace[i].signal = "Continue" /\ i < Len(Trace)) => Trace[i + 1].node = "respond"

C26_Witness ==
    /\ input.which = UsageAssistant
    /\ phase = "done"
    /\ status = "Finished"
    /\ get_context(st, "user_intent", "string") = Some(<<"example">>)
    /\ TimesRun("fetch_examples") = 1
    /\ TimesRun("search_docs") = 0

\* the pending calls of the state that a node of the graph issued, by position
NodeIssued ==
    {c \in 1..Len(st.pending_tool_calls) :
        st.pending_tool_calls[c].id \notin CallIds(input.calls)}

\* the argument a tool cannot do without
RequiredArgument(name) ==
    CASE name = "search_wxo_docs" -> "query"
      [] name = "fetch_wxo_examples" -> "topic"
      [] OTHER -> "config_type"

\* C27: a tool call issued by a node of a shipped graph names search_wxo_docs or
\* fetch_wxo_examples, both registered, and holds that tool's required argument as a
\* string; the three registered names differ from each other; a run of a shipped
\* graph on the state process_message builds gets no error result from a tool.
C27_IssuedCallsAreValid ==
    /\ Cardinality({create_tool_registry[i] : i \in 1..Len(create_tool_registry)}) = 3
    /\ Len(create_tool_registry) = 3
    /\ input.which \in AgentTypes =>
          /\ \A c \in NodeIssued :
                LET call == st.pending_tool_calls[c]
                IN  /\ call.name \in {"search_wxo_docs", "fetch_wxo_examples"}
                    /\ Registered(call.name)
                    /\ has_string(call.arguments, RequiredArgument(call.name))
                    /\ ~ ToolRegistry_execute(create_tool_registry, call).is_error
          /\ input.calls = <<>> =>
                \A i \in 1..Len(st.messages) :
                    st.messages[i].role = "tool" => st.messages[i].content[1] # "Error"

C27_Witness ==
    /\ input.which = BestPractices
    /\ input.calls = <<>>
    /\ phase = "done"
    /\ status = "Finished"
    /\ \E i \in 1..Len(st.messages) :
          st.messages[i].role = "tool" /\ st.messages[i].content[1] = "examples_json"

\* C28: a call that another writer appended while the tool-execution node was between
\* its snapshot and its clear is, once the node has returned, still pending or
\* answered by a tool message.
C28_NoCallDiscarded ==
    (OtherCall.id \in hist.issued /\ et.pc = "idle") =>
        \/ OtherCall.id \in CallIds(st.pending_tool_calls)
        \/ Answers(st.messages, OtherCall.id) # {}

\* the role and the content of each message of a list
RolesAndContents(msgs) ==
    [i \in 1..Len(msgs) |-> [role |-> msgs[i].role, content |-> msgs[i].content]]

\* C29: convert_to_agent_state yields the system prompt of the agent followed by the
\* messages of the source state in their order, one for each (every tool message of
\* a state built by the public methods has a tool_call_id, so none is dropped).
C29_ConversionKeepsOrder ==
    last.op = "convert_to_agent_state" =>
        /\ st.messages # <<>>
        /\ RolesAndContents(st.messages)[1]
              = [role |-> "system", content |-> system_prompt(last.before.agent_type)]
        /\ RolesAndContents(Tail(st.messages)) = RolesAndContents(last.before.messages)

----------------------------------------------------------------------------
(* Interactive mode (bin/cli.rs main): one call of process_message per line of stdin *)

MaxLines == 2

\* a line of stdin: its words, and the JSON document the words spell, if any
TextLine(words) == [raw |-> words, json |-> None]

JsonLine(words, fields) == [raw |-> words, json |-> Some(JObject(fields))]

SessionOfLine == <<"session", 2>>

Lines ==
    { TextLine(<<>>),
      TextLine(<<"How", "do", "I", "reset", "my", "password?">>),
      JsonLine(<<"{\"message\":", "\"A", "sample", "skill", "please\",",
                 "\"session_id\":", "\"session-2\"}">>,
               [k \in {"message", "session_id"} |->
                   IF k = "message" THEN JString(<<"A", "sample", "skill", "please">>)
                   ELSE JString(<<SessionOfLine>>)]),
      JsonLine(<<"{\"message\":", "\"My", "workflow", "failed", "with", "401\"}">>,
               [k \in {"message"} |-> JString(<<"My", "workflow", "failed", "with", "401">>)]),
      JsonLine(<<"{\"text\":", "\"Is", "this", "config", "correct?\"}">>,
               [k \in {"text"} |-> JString(<<"Is", "this", "config", "correct?">>)]) }

\* serde_json::from_str::<InputMessage>: message is a required String, session_id an
\* Option<String> that defaults to None; fields the struct does not name are ignored
InputMessage_from_str(line) ==
    IF line.json = None THEN Err("expected value")
    ELSE LET fields == line.json[1].v IN
         IF ~ has_string(fields, "message") THEN Err("missing field message")
         ELSE IF "session_id" \notin DOMAIN fields
         THEN Ok([message |-> fields["message"].v, session_id |-> None])
         ELSE IF fields["session_id"].t # "string" THEN Err("invalid type")
         ELSE Ok([message |-> fields["message"].v,
                  session_id |-> Some(fields["session_id"].v[1])])

\* line.trim().is_empty()
is_blank(line) == line.raw = <<>>

\* the (message, session_id) pair the loop hands to process_message
MessageAndSession(line, cli_session) ==
    LET parsed == InputMessage_from_str(line) IN
    IF parsed.ok
    THEN [message |-> parsed.v.message, session_id |-> parsed.v.session_id]
    ELSE [message |-> line.raw, session_id |-> cli_session]

\* the session id of the AgentResponse process_message returns
AgentResponse_session_id ==
    IF graph = None
    THEN IF input.session # None THEN input.session[1] ELSE <<>>
    ELSE IF input.session # None THEN input.session[1] ELSE Uuid(1)

InteractiveInit ==
    /\ input \in [which : AgentTypes, message : {None}, session : {None}, calls : {<<>>}]
    /\ phase = "read"
    /\ graph = None
    /\ status = "Idle"
    /\ current = END
    /\ iterations = 0
    /\ st = IdleState
    /\ et = EtIdle
    /\ uuid = 0
    /\ error = None
    /\ hist = NoHistory
    /\ wx = IdleState
    /\ clock = 0
    /\ last = [op |-> "new", before |-> IdleState, n |-> 0, at |-> 0]
    /\ lock = "ok"
    /\ db = <<>>
    /\ io \in [session : {None} \cup {Some(x) : x \in SessionIds},
               stdin : SeqsUpTo(Lines, MaxLines),
               read : {<<>>},
               line : {None},
               stdout : {<<>>}]

\* one turn of `for line in stdin.lock().lines()` up to the call of process_message:
\* a blank line is skipped, any other line starts a run on a state of its own
Interactive_read_line ==
    /\ phase = "read"
    /\ io.stdin # <<>>
    /\ LET line == Head(io.stdin) IN
       IF is_blank(line)
       THEN /\ io' = [io EXCEPT !.stdin = Tail(@), !.read = Append(@, line)]
            /\ UNCHANGED <<input, phase, graph, status, current, iterations, st, et,
                           uuid, error, hist, lock>>
       ELSE LET given == MessageAndSession(line, io.session) IN
            /\ io' = [io EXCEPT !.stdin = Tail(@), !.read = Append(@, line),
                                !.line = Some(line)]
            /\ input' = [input EXCEPT !.message = Some(given.message),
                                      !.session = given.session_id]
            /\ phase' = "build"
            /\ graph' = None
            /\ status' = "Idle"
            /\ current' = END
            /\ iterations' = 0
            /\ st' = IdleState
            /\ et' = EtIdle
            /\ uuid' = 0
            /\ error' = None
            /\ hist' = NoHistory
            /\ lock' = "ok"
    /\ UNCHANGED <<wx, clock, last, db>>

\* output_response and stdout.flush() for the line that was read
Interactive_output_response ==
    /\ phase = "done"
    /\ io.line # None
    /\ io' = [io EXCEPT !.line = None,
                        !.stdout = Append(@, [session_id |-> AgentResponse_session_id,
                                              agent_type |-> input.which,
                                              response |-> AgentResponse.response,
                                              error |-> AgentResponse.error,
                                              line |-> io.line[1]])]
    /\ phase' = "read"
    /\ UNCHANGED <<input, graph, status, current, iterations, st, et, uuid, error, hist,
                   lock, wx, clock, last, db>>

InteractiveNext ==
    \/ Interactive_read_line
    \/ Interactive_output_response
    \/ ProcessMessage
    \/ Poison
    \/ AnalyzeQueryNode_execute
    \/ DiagnoseNode_execute
    \/ AssessmentNode_execute
    \/ DocsCategoryNode_execute
    \/ AdminSearchNode_execute
    \/ UsageSearchNode_execute
    \/ ExampleFetchNode_execute
    \/ TroubleshootSearchNode_execute
    \/ BestPracticesSearchNode_execute
    \/ DocsSearchNode_execute
    \/ AdminResponseNode_execute
    \/ UsageResponseNode_execute
    \/ TroubleshootResponseNode_execute
    \/ BestPracticesResponseNode_execute
    \/ DocsResponseNode_execute
    \/ ExecuteTools_snapshot
    \/ ExecuteTools_dispatch
    \/ ExecuteTools_await
    \/ ExecuteTools_write
    \/ ExecuteTools_clear

InteractiveSpec == InteractiveInit /\ [][InteractiveNext]_vars

\* the lines of a list that are not blank
NonBlank(lines) == SelectSeq(lines, LAMBDA line : ~ is_blank(line))

\* the session id a line carries itself
OwnSession(line) ==
    LET parsed == InputMessage_from_str(line) IN
    IF parsed.ok THEN parsed.v.session_id ELSE None

\* each line read so far that is not blank has one response, in the order read (the
\* line whose run is under way has none yet)
OneResponsePerLine ==
    NonBlank(io.read)
        = [i \in 1..Len(io.stdout) |-> io.stdout[i].line]
            \o (IF io.line = None THEN <<>> ELSE <<io.line[1]>>)

\* a response has a non-empty error and no text, or no error
ErrorOrText(r) ==
    \/ r.error = None
    \/ r.error # None /\ r.error[1] # <<>> /\ r.response = <<>>

\* C30: in interactive mode every non-blank line of stdin produces exactly one
\* response and a blank line none, in input order; a response carries the session id
\* of its line if the line has one, otherwise the one given with --session, and a
\* fresh one only when neither is present; it has a non-empty error and an empty
\* text, or no error.
C30_InteractiveResponses ==
    /\ OneResponsePerLine
    /\ \A i \in 1..Len(io.stdout) :
          LET r == io.stdout[i]
              own == OwnSession(r.line)
          IN  /\ ErrorOrText(r)
              /\ r.session_id = IF own # None THEN own[1]
                                ELSE IF io.session # None THEN io.session[1]
                                ELSE Uuid(1)

====
